---------------------------- MODULE Spec2Model ----------------------------
(***************************************************************************)
(* Model of the recall-2025 ETL scripts:                                   *)
(*   extract_and_merge.py            main, merge_by_cunli, resolution      *)
(*   add_villcode.py                 update_cunli_files (first version)    *)
(*   match_villcode_improved.py      update_cunli_files (improved version) *)
(*   combine_cunli_election_data.py  combine_data                          *)
(*                                                                         *)
(* Text.  A Python str is a sequence of one-character strings.  The CJK    *)
(* characters of the source are written with ASCII stand-ins:              *)
(*   "S" shi (city)      "X" xian (county)    "Q" qu (district)            *)
(*   "Z" zhen (town)     "G" xiang (township) "T" tai, traditional form    *)
(*   "t" tai, simplified "b" bei  "z" zhong   "d" dong   "n" nan           *)
(*   "#" di (ordinal)    "e" xuan  "j" ju     "J" jie    "c" zhang         *)
(*   "h" Xinzhu (two characters never inspected apart)                     *)
(*   "k" Jilong          "N" Xinbei (New Taipei, without its "S")          *)
(*   "R" the words 'Zheng Zhengqian recall case' of a case label           *)
(*   "_" "(" ")" and the digits stand for themselves; every other letter   *)
(*   is a run of characters that no script inspects.                       *)
(* Python None is the one-element sequence <<"<None>">>.                   *)
(***************************************************************************)
EXTENDS Integers, Sequences, FiniteSets, TLC

None == <<"<None>">>

\* Python truthiness of an optional str: None and '' are false.
Truthy(s) == s # None /\ s # <<>>

\* sub occurs in s at position i (1-based).
OccursAt(s, sub, i) ==
    /\ i >= 1
    /\ i + Len(sub) - 1 <= Len(s)
    /\ \A j \in 1..Len(sub) : s[i + j - 1] = sub[j]

\* Python `sub in s`.
Contains(s, sub) == \E i \in 1..(Len(s) + 1) : OccursAt(s, sub, i)

\* Least i >= from where sub occurs in s, or 0.
RECURSIVE FindFrom(_, _, _)
FindFrom(s, sub, from) ==
    IF from + Len(sub) - 1 > Len(s) THEN 0
    ELSE IF OccursAt(s, sub, from) THEN from
    ELSE FindFrom(s, sub, from + 1)

\* Python s.split(sep) for a non-empty separator: the list of the pieces
\* between the non-overlapping occurrences of sep, left to right.
RECURSIVE Split(_, _)
Split(s, sep) ==
    LET i == FindFrom(s, sep, 1)
    IN  IF i = 0 THEN <<s>>
        ELSE <<SubSeq(s, 1, i - 1)>>
             \o Split(SubSeq(s, i + Len(sep), Len(s)), sep)

\* Python sep.join(parts).
RECURSIVE Join(_, _)
Join(sep, parts) ==
    IF Len(parts) = 0 THEN <<>>
    ELSE IF Len(parts) = 1 THEN parts[1]
    ELSE parts[1] \o sep \o Join(sep, Tail(parts))

\* Python s.replace(old, new) for a non-empty old.
Replace(s, old, new) == Join(new, Split(s, old))

\* Python s[:n].
Prefix(s, n) == SubSeq(s, 1, IF n < Len(s) THEN n ELSE Len(s))

IsDigit(c) == c \in {"0", "1", "2", "3", "4", "5", "6", "7", "8", "9"}

RECURSIVE SumSeq(_)
SumSeq(xs) == IF Len(xs) = 0 THEN 0 ELSE xs[1] + SumSeq(Tail(xs))

\* The elements of a sequence, as a set.
Range(xs) == {xs[i] : i \in 1..Len(xs)}

\* The indices i of xs with P, in increasing order.
RECURSIVE SelectIdx(_, _)
SelectIdx(n, keep) ==
    IF n = 0 THEN <<>>
    ELSE SelectIdx(n - 1, keep) \o (IF n \in keep THEN <<n>> ELSE <<>>)

-----------------------------------------------------------------------------
(***************************************************************************)
(* Names, labels and codes used as inputs.                                 *)
(***************************************************************************)
Underscore == <<"_">>

\* County names.
Xinbei == <<"N", "S">>
TaibeiTrad == <<"T", "b", "S">>
TaibeiSimp == <<"t", "b", "S">>
Xinzhu == <<"h", "S">>
Jilong == <<"k", "S">>

\* District and village names.
Yonghe == <<"y", "Q">>
Guangfu == <<"g">>
Daan == <<"a", "Q">>
VillV == <<"v">>
VillU == <<"u">>

\* cunli_key of the village whose agree/disagree columns were exchanged at
\* the source (extract_and_merge.py line 330).
CorrectionKey == Yonghe \o Underscore \o Guangfu

\* '65000040036' (extract_and_merge.py line 290).
CorrectionCode == <<"6", "5", "0", "0", "0", "0", "4", "0", "0", "3", "6">>

CodeDaanV == <<"6", "3", "0", "0", "0", "3", "0", "0", "0", "0", "1">>
CodeM1 == <<"9", "1">>
CodeM2 == <<"9", "2">>
CodeM3 == <<"9", "3">>

\* Recall case labels (the file name without its table prefix and '.xlsx').
\* "L" is the text before the parenthesis, the trailing letter the rest.
SuffixZone == <<"e", "j", "Q", ")">>
CaseXinbei9 == <<"L", "(", "N", "S", "#", "9">> \o SuffixZone \o <<"l">>
CaseTaibei3 == <<"L", "(", "T", "b", "S", "#", "3">> \o SuffixZone \o <<"w">>
CaseTaibei4 == <<"L", "(", "T", "b", "S", "#", "4">> \o SuffixZone \o <<"m">>
CaseXinzhuLegislator == <<"L", "(", "h", "S">> \o SuffixZone \o <<"R">>
CaseJilong == <<"L", "(", "k", "S">> \o SuffixZone \o <<"f">>
CaseXinzhuMayor == <<"h", "S", "#", "1", "1", "J", "S", "c", "o">>
CaseNoCounty == <<"L", "w">>

-----------------------------------------------------------------------------
(***************************************************************************)
(* extract_county_from_recall_case                                         *)
(*   re.search(r'\(([^)]+)(S|X)(?:#\d+)?ejQ\)', recall_case) in the        *)
(*   stand-in alphabet, then the mayor-recall special case.                *)
(***************************************************************************)
\* (?:#\d+)?ejQ\) matches s from position p.
ZoneTailAt(s, p) ==
    \/ OccursAt(s, SuffixZone, p)
    \/ /\ p <= Len(s)
       /\ s[p] = "#"
       /\ \E m \in 1..Len(s) :
            /\ \A j \in 1..m : p + j <= Len(s) /\ IsDigit(s[p + j])
            /\ OccursAt(s, SuffixZone, p + m + 1)

\* The pattern matches with '(' at i and group 1 ending at k: group 1 is
\* s[i+1..k], group 2 is s[k+1].
CountyMatch(s, i, k) ==
    /\ s[k + 1] \in {"S", "X"}
    /\ \A j \in (i + 1)..k : s[j] # ")"
    /\ ZoneTailAt(s, k + 2)

CountyEnds(s, i) == {k \in (i + 1)..(Len(s) - 1) : CountyMatch(s, i, k)}

extract_county_from_recall_case(recall_case) ==
    LET s == recall_case
        starts == {i \in {j \in 1..Len(s) : s[j] = "("} : CountyEnds(s, i) # {}}
    IN  IF starts # {}
        THEN LET \* re.search: the leftmost start
                 i == CHOOSE x \in starts : \A y \in starts : x <= y
                 \* [^)]+ is greedy: the longest group 1 that lets the rest match
                 k == CHOOSE x \in CountyEnds(s, i) : \A y \in CountyEnds(s, i) : y <= x
             IN  SubSeq(s, i + 1, k + 1)
        ELSE IF Contains(s, <<"h", "S", "#", "1", "1", "J", "S", "c">>)
        THEN Xinzhu
        ELSE None

\* A normalizer that replaces a name only when it is the whole input.
NormalizeWholeName(district_name) ==
    IF district_name \in {<<"T", "b", "S">>, <<"T", "z", "S">>, <<"T", "d", "X">>,
                          <<"T", "n", "S">>}
    THEN <<"t">> \o Tail(district_name)
    ELSE district_name

\* A normalizer that replaces only the first Taibei of a name.
NormalizeFirstTaibei(district_name) ==
    LET i == FindFrom(district_name, <<"T", "b", "S">>, 1)
    IN  IF i = 0 THEN district_name
        ELSE [district_name EXCEPT ![i] = "t"]

(***************************************************************************)
(* normalize_district_name: four str.replace calls in dict order.          *)
(***************************************************************************)
normalize_district_name(district_name) ==
    LET r1 == Replace(district_name, <<"T", "b", "S">>, <<"t", "b", "S">>)
        r2 == Replace(r1, <<"T", "z", "S">>, <<"t", "z", "S">>)
        r3 == Replace(r2, <<"T", "d", "X">>, <<"t", "d", "X">>)
        r4 == Replace(r3, <<"T", "n", "S">>, <<"t", "n", "S">>)
    IN  r4

-----------------------------------------------------------------------------
(***************************************************************************)
(* Dictionaries are functions; d[k] = v overwrites.                        *)
(***************************************************************************)
EmptyDict == << >>
DictSet(d, k, v) == [x \in (DOMAIN d) \cup {k} |-> IF x = k THEN v ELSE d[x]]

\* A VILLCODE value is a str, or (manual overrides only) a list of str.
\* Both are kept as the list of their codes with the flag isList.
StrCode(c) == [isList |-> FALSE, codes |-> <<c>>]
ListCode(cs) == [isList |-> TRUE, codes |-> cs]
EmptyCode == StrCode(<<>>)
\* Python truthiness of a villcode value.
CodeFilled(v) == IF v.isList THEN v.codes # <<>> ELSE v.codes[1] # <<>>
\* villcode == '65000040036'
IsCorrectionCode(v) == ~v.isList /\ v.codes[1] = CorrectionCode
\* v[:n] if len(v) >= n else ''
CodePrefix(v, n) ==
    IF v.isList
    THEN IF Len(v.codes) >= n THEN ListCode(SubSeq(v.codes, 1, n)) ELSE EmptyCode
    ELSE IF Len(v.codes[1]) >= n THEN StrCode(Prefix(v.codes[1], n)) ELSE EmptyCode

(***************************************************************************)
(* load_villcode_mapping (extract_and_merge.py, match_villcode_improved.py)*)
(* A registry feature is [COUNTYNAME, TOWNNAME, VILLNAME, VILLCODE,        *)
(* COUNTYCODE, TOWNCODE].                                                  *)
(***************************************************************************)
VillcodeInfo(props) ==
    [VILLCODE |-> StrCode(props.VILLCODE),
     COUNTYCODE |-> StrCode(props.COUNTYCODE),
     TOWNCODE |-> StrCode(props.TOWNCODE),
     COUNTYNAME |-> props.COUNTYNAME,
     TOWNNAME |-> props.TOWNNAME,
     VILLNAME |-> props.VILLNAME]

Key3(county, town, village) ==
    county \o Underscore \o town \o Underscore \o village

\* A registration under the exact key alone.
FeatureKeysExactOnly(props) ==
    {props.COUNTYNAME \o Underscore \o props.TOWNNAME \o Underscore \o props.VILLNAME}

FeatureKeys(props) ==
    LET county == props.COUNTYNAME
        town == props.TOWNNAME
        village == props.VILLNAME
        county_norm == Replace(county, <<"T">>, <<"t">>)
        town_norm == Replace(town, <<"T">>, <<"t">>)
    IN  {Key3(county, town, village),
         Key3(county_norm, town_norm, village),
         Key3(county_norm, town, village),
         Key3(county, town_norm, village)}

RECURSIVE LoadFeatures(_, _, _)
LoadFeatures(features, i, villcode_map) ==
    IF i > Len(features) THEN villcode_map
    ELSE LET props == features[i]
             keys == IF props.VILLNAME # None THEN FeatureKeys(props) ELSE {}
         IN  LoadFeatures(features, i + 1,
                 [x \in (DOMAIN villcode_map) \cup keys |->
                     IF x \in keys THEN VillcodeInfo(props) ELSE villcode_map[x]])

load_villcode_mapping(features) == LoadFeatures(features, 1, EmptyDict)

(***************************************************************************)
(* merge_by_cunli.  The result keeps insertion order (a Python dict): a    *)
(* sequence of groups [key, idx], idx the positions in all_data of the     *)
(* group's records (the dicts are shared with all_data, not copied).       *)
(***************************************************************************)
CunliKey(record) == record.district \o Underscore \o record.village

AddToGroup(groups, key, i) ==
    IF \E g \in 1..Len(groups) : groups[g].key = key
    THEN [g \in 1..Len(groups) |->
            IF groups[g].key = key
            THEN [groups[g] EXCEPT !.idx = Append(@, i)]
            ELSE groups[g]]
    ELSE Append(groups, [key |-> key, idx |-> <<i>>])

RECURSIVE MergeFrom(_, _, _)
MergeFrom(all, i, groups) ==
    IF i > Len(all) THEN groups
    ELSE MergeFrom(all, i + 1,
            IF Truthy(all[i].district) /\ Truthy(all[i].village)
            THEN AddToGroup(groups, CunliKey(all[i]), i)
            ELSE groups)

merge_by_cunli(all) == MergeFrom(all, 1, <<>>)

-----------------------------------------------------------------------------
(***************************************************************************)
(* extract_and_merge.main: aggregation.                                    *)
(* A polling record carries recall_case, district, village and the vote    *)
(* counts; polling_station and turnout_rate are carried through untouched  *)
(* and never read, and are left out.                                       *)
(***************************************************************************)
\* round(n / d, 0) on exact values, ties to even (Python's round), n >= 0, d > 0.
RoundHalfEven(n, d) ==
    LET q == n \div d
        r == n % d
    IN  IF 2 * r < d THEN q
        ELSE IF 2 * r > d THEN q + 1
        ELSE IF q % 2 = 0 THEN q ELSE q + 1

\* round((part / whole) * 100, 2) if whole > 0 else 0.0, in hundredths of a
\* percent (10000 is 100.00).
Percent2(part, whole) ==
    IF whole > 0 THEN RoundHalfEven(part * 10000, whole) ELSE 0

\* The ratio taken the wrong way round.
InverseTurnoutRate(total_voters, eligible_voters) ==
    Percent2(eligible_voters, total_voters)

AverageTurnoutRate(total_voters, eligible_voters) ==
    Percent2(total_voters, eligible_voters)

SumOf(records, field) == SumSeq([i \in 1..Len(records) |-> records[i][field]])

\* lines 208-226: the nine sums and the turnout rate
SumFieldsFile(records) ==
    LET total_voters == SumOf(records, "total_voters")
        eligible_voters == SumOf(records, "eligible_voters")
    IN  [agree_votes |-> SumOf(records, "agree_votes"),
         disagree_votes |-> SumOf(records, "disagree_votes"),
         valid_votes |-> SumOf(records, "valid_votes"),
         invalid_votes |-> SumOf(records, "invalid_votes"),
         total_voters |-> total_voters,
         ballots_not_cast |-> SumOf(records, "ballots_not_cast"),
         ballots_issued |-> SumOf(records, "ballots_issued"),
         unused_ballots |-> SumOf(records, "unused_ballots"),
         eligible_voters |-> eligible_voters,
         average_turnout_rate |-> AverageTurnoutRate(total_voters, eligible_voters)]

\* lines 345-360: the six sums and the turnout rate
SumFieldsSummary(records) ==
    LET total_voters == SumOf(records, "total_voters")
        eligible_voters == SumOf(records, "eligible_voters")
    IN  [agree_votes |-> SumOf(records, "agree_votes"),
         disagree_votes |-> SumOf(records, "disagree_votes"),
         valid_votes |-> SumOf(records, "valid_votes"),
         invalid_votes |-> SumOf(records, "invalid_votes"),
         total_voters |-> total_voters,
         eligible_voters |-> eligible_voters,
         average_turnout_rate |-> AverageTurnoutRate(total_voters, eligible_voters)]

\* Exchange agree_votes and disagree_votes of one dict.
SwapAgreeDisagree(r) ==
    [r EXCEPT !.agree_votes = r.disagree_votes, !.disagree_votes = r.agree_votes]

\* The records of a group, read from the shared dicts of all_data.
GroupRecords(all, group) == [j \in 1..Len(group.idx) |-> all[group.idx[j]]]

(***************************************************************************)
(* load_manual_villcode_mapping.  missing_villcode_mapping.json is absent  *)
(* (NoFile) or holds a list of entries [cunli_key, district, village,      *)
(* county, villcode].                                                      *)
(***************************************************************************)
NoFile == [exists |-> FALSE, entries |-> <<>>]
FileOf(entries) == [exists |-> TRUE, entries |-> entries]

ManualInfo(mapping) ==
    [VILLCODE |-> mapping.villcode,
     COUNTYCODE |-> CodePrefix(mapping.villcode, 3),
     TOWNCODE |-> CodePrefix(mapping.villcode, 6),
     COUNTYNAME |-> mapping.county,
     TOWNNAME |-> mapping.district,
     VILLNAME |-> mapping.village]

RECURSIVE LoadManual(_, _, _)
LoadManual(manual_mappings, i, manual_map) ==
    IF i > Len(manual_mappings) THEN manual_map
    ELSE LoadManual(manual_mappings, i + 1,
            IF CodeFilled(manual_mappings[i].villcode)
            THEN DictSet(manual_map, manual_mappings[i].cunli_key,
                         ManualInfo(manual_mappings[i]))
            ELSE manual_map)

load_manual_villcode_mapping(file) ==
    IF file.exists THEN LoadManual(file.entries, 1, EmptyDict) ELSE EmptyDict

(***************************************************************************)
(* Resolution of one village, as the three loops of main do it.            *)
(***************************************************************************)
\* lines 237-244: district, village and county of a group
KeyDistrict(cunli_key) == Split(cunli_key, Underscore)[1]
KeyVillage(cunli_key) == Split(cunli_key, Underscore)[2]
RegistryKey(county, cunli_key) ==
    Key3(normalize_district_name(county), KeyDistrict(cunli_key), KeyVillage(cunli_key))

\* lines 246-285.  info is <<>> or <<the six VILLCODE fields>>; villcode is
\* <<>> (None) or <<value>>; missing is <<>> or <<the entry appended>>.
ResolveForFile(cunli_key, county, villcode_map, manual_map) ==
    IF cunli_key \in DOMAIN manual_map
    THEN LET villcode_info == manual_map[cunli_key]
             villcode == villcode_info.VILLCODE
         IN  [info |-> <<villcode_info>>,
              villcode |-> <<villcode>>,
              filename |-> villcode.codes[1],
              codes |-> villcode.codes,
              missing |-> <<>>]
    ELSE IF Truthy(county)
    THEN LET key == RegistryKey(county, cunli_key)
         IN  IF key \in DOMAIN villcode_map
             THEN [info |-> <<villcode_map[key]>>,
                   villcode |-> <<villcode_map[key].VILLCODE>>,
                   filename |-> villcode_map[key].VILLCODE.codes[1],
                   codes |-> villcode_map[key].VILLCODE.codes,
                   missing |-> <<>>]
             ELSE [info |-> <<>>,
                   villcode |-> <<>>,
                   filename |-> cunli_key,
                   codes |-> <<>>,
                   missing |-> <<[cunli_key |-> cunli_key,
                                  district |-> KeyDistrict(cunli_key),
                                  village |-> KeyVillage(cunli_key),
                                  county |-> normalize_district_name(county),
                                  villcode |-> EmptyCode]>>]
    ELSE [info |-> <<>>, villcode |-> <<>>, filename |-> cunli_key,
          codes |-> <<>>, missing |-> <<>>]

\* The registry asked before the manual mappings.
RegistryFirstForSummary(cunli_key, county, villcode_map, manual_map) ==
    IF Truthy(county) /\ RegistryKey(county, cunli_key) \in DOMAIN villcode_map
    THEN <<villcode_map[RegistryKey(county, cunli_key)].VILLCODE.codes[1]>>
    ELSE IF cunli_key \in DOMAIN manual_map
    THEN <<manual_map[cunli_key].VILLCODE.codes[1]>>
    ELSE <<>>

\* lines 372-386: <<>> (None) or <<the code>>; a list gives its first code
ResolveForSummary(cunli_key, county, villcode_map, manual_map) ==
    IF cunli_key \in DOMAIN manual_map
    THEN <<manual_map[cunli_key].VILLCODE.codes[1]>>
    ELSE IF Truthy(county)
    THEN LET key == RegistryKey(county, cunli_key)
         IN  IF key \in DOMAIN villcode_map
             THEN <<villcode_map[key].VILLCODE.codes[1]>>
             ELSE <<>>
    ELSE <<>>

\* lines 476-488: the codes added to case_villcodes for one record
ResolveForCase(cunli_key, county, villcode_map, manual_map) ==
    IF cunli_key \in DOMAIN manual_map
    THEN Range(manual_map[cunli_key].VILLCODE.codes)
    ELSE IF Truthy(county)
    THEN LET key == RegistryKey(county, cunli_key)
         IN  IF key \in DOMAIN villcode_map
             THEN {villcode_map[key].VILLCODE.codes[1]}
             ELSE {}
    ELSE {}

-----------------------------------------------------------------------------
(***************************************************************************)
(* extract_and_merge.main: the three loops and the saved mapping file.     *)
(***************************************************************************)
\* lines 292-295: exchange the two totals of sum_fields
CorrectedSumFields(sum_fields) == SwapAgreeDisagree(sum_fields)

\* The record left as extracted.
UncorrectedRecord(record) == record

\* lines 298-301: exchange the two counts of one record, in place
CorrectedRecord(record) == SwapAgreeDisagree(record)

\* lines 206-305, one iteration.  acc is [all_data, written, villcode_files,
\* missing_villcode]; the document is appended to written as it is dumped.
FileLoopBody(group, acc, villcode_map, manual_map) ==
    LET cunli_key == group.key
        records == GroupRecords(acc.all_data, group)
        sum_fields == SumFieldsFile(records)
        county == extract_county_from_recall_case(records[1].recall_case)
        res == ResolveForFile(cunli_key, county, villcode_map, manual_map)
        correction == res.villcode # <<>> /\ IsCorrectionCode(res.villcode[1])
        members == Range(group.idx)
        all_data2 == IF correction
                     THEN [i \in 1..Len(acc.all_data) |->
                            IF i \in members
                            THEN CorrectedRecord(acc.all_data[i])
                            ELSE acc.all_data[i]]
                     ELSE acc.all_data
        data == [filename |-> res.filename,
                 cunli |-> cunli_key,
                 total_records |-> Len(records),
                 sum_fields |-> IF correction
                                THEN CorrectedSumFields(sum_fields)
                                ELSE sum_fields,
                 records |-> GroupRecords(all_data2, group),
                 info |-> res.info]
    IN  [all_data |-> all_data2,
         written |-> Append(acc.written, data),
         villcode_files |-> acc.villcode_files \o res.codes,
         missing_villcode |-> acc.missing_villcode \o res.missing]

RECURSIVE FileLoop(_, _, _, _, _)
FileLoop(merged, g, acc, villcode_map, manual_map) ==
    IF g > Len(merged) THEN acc
    ELSE FileLoop(merged, g + 1,
                  FileLoopBody(merged[g], acc, villcode_map, manual_map),
                  villcode_map, manual_map)

\* lines 326-397, one iteration
SummaryLoopBody(group, all, summary, villcode_map, manual_map) ==
    LET cunli_key == group.key
        records == GroupRecords(all, group)
        needs_correction == (cunli_key = CorrectionKey)
        corrected_records == IF needs_correction
                             THEN [j \in 1..Len(records) |->
                                     SwapAgreeDisagree(records[j])]
                             ELSE records
        sum_fields == SumFieldsSummary(corrected_records)
        county == extract_county_from_recall_case(records[1].recall_case)
        villcode == ResolveForSummary(cunli_key, county, villcode_map, manual_map)
        county_out == IF cunli_key \notin DOMAIN manual_map /\ Truthy(county)
                      THEN normalize_district_name(county)
                      ELSE county
    IN  IF villcode # <<>> /\ villcode[1] # <<>>
        THEN DictSet(summary, villcode[1],
                     [cunli |-> cunli_key,
                      district |-> KeyDistrict(cunli_key),
                      village |-> KeyVillage(cunli_key),
                      county |-> county_out,
                      total_records |-> Len(records),
                      sum_fields |-> sum_fields])
        ELSE summary

RECURSIVE SummaryLoop(_, _, _, _, _, _)
SummaryLoop(merged, g, all, summary, villcode_map, manual_map) ==
    IF g > Len(merged) THEN summary
    ELSE SummaryLoop(merged, g + 1, all,
                     SummaryLoopBody(merged[g], all, summary, villcode_map, manual_map),
                     villcode_map, manual_map)

\* lines 406-409
RecallCases(all) ==
    {all[i].recall_case : i \in {j \in 1..Len(all) : all[j].recall_case # <<>>}}

\* lines 456-521, the statistics of one case.  (main stores them under the
\* display name clean_case_name gives the label; here they are stored under
\* the label.)
CaseTotals(case, all, villcode_map, manual_map) ==
    LET idx == SelectIdx(Len(all), {i \in 1..Len(all) : all[i].recall_case = case})
        case_records == [j \in 1..Len(idx) |-> all[idx[j]]]
        located == {j \in 1..Len(case_records) :
                      Truthy(case_records[j].district) /\ Truthy(case_records[j].village)}
        case_villages == {CunliKey(case_records[j]) : j \in located}
        case_districts == {case_records[j].district : j \in located}
        county == extract_county_from_recall_case(case)
        case_villcodes == UNION {ResolveForCase(CunliKey(case_records[j]), county,
                                                villcode_map, manual_map) : j \in located}
        agree_votes == SumOf(case_records, "agree_votes")
        disagree_votes == SumOf(case_records, "disagree_votes")
        valid_votes == SumOf(case_records, "valid_votes")
        total_voters == SumOf(case_records, "total_voters")
        eligible_voters == SumOf(case_records, "eligible_voters")
    IN  [agree_votes |-> agree_votes,
         disagree_votes |-> disagree_votes,
         valid_votes |-> valid_votes,
         total_voters |-> total_voters,
         eligible_voters |-> eligible_voters,
         polling_stations |-> Len(case_records),
         villages |-> Cardinality(case_villages),
         districts |-> Cardinality(case_districts),
         village_codes |-> case_villcodes,
         cunli_keys |-> case_villages,
         agree_percentage |-> Percent2(agree_votes, valid_votes),
         disagree_percentage |-> Percent2(disagree_votes, valid_votes),
         turnout_rate |-> Percent2(total_voters, eligible_voters)]

\* lines 533-560: the mapping file after the run
RECURSIVE ExistingMappings(_, _, _)
ExistingMappings(existing_data, i, existing_mappings) ==
    IF i > Len(existing_data) THEN existing_mappings
    ELSE ExistingMappings(existing_data, i + 1,
            IF CodeFilled(existing_data[i].villcode)
            THEN DictSet(existing_mappings, existing_data[i].cunli_key, existing_data[i])
            ELSE existing_mappings)

SaveMissing(file, missing) ==
    IF missing # <<>>
    THEN LET existing_mappings ==
                 IF file.exists
                 THEN ExistingMappings(file.entries, 1, EmptyDict)
                 ELSE EmptyDict
         IN  FileOf([i \in 1..Len(missing) |->
                       IF missing[i].cunli_key \in DOMAIN existing_mappings
                       THEN existing_mappings[missing[i].cunli_key]
                       ELSE missing[i]])
    ELSE file

-----------------------------------------------------------------------------
(***************************************************************************)
(* Bounds and inputs of the runs of extract_and_merge.main.                *)
(***************************************************************************)
MaxRecords == 2
MaxVotes == 1

\* One polling-station row: a agree, d disagree, one invalid ballot, e on the
\* roll.  The sheet need not be consistent: e may be below the ballots cast.
Tally(a, d, e) ==
    [agree_votes |-> a, disagree_votes |-> d, valid_votes |-> a + d,
     invalid_votes |-> 1, total_voters |-> a + d + 1, ballots_not_cast |-> 0,
     ballots_issued |-> a + d + 1, unused_ballots |-> 0, eligible_voters |-> e]

Rec(case, district, village, tally) ==
    [recall_case |-> case, district |-> district, village |-> village,
     agree_votes |-> tally.agree_votes, disagree_votes |-> tally.disagree_votes,
     valid_votes |-> tally.valid_votes, invalid_votes |-> tally.invalid_votes,
     total_voters |-> tally.total_voters,
     ballots_not_cast |-> tally.ballots_not_cast,
     ballots_issued |-> tally.ballots_issued,
     unused_ballots |-> tally.unused_ballots,
     eligible_voters |-> tally.eligible_voters]

DistP == <<"p">>
DistPQ == <<"p", "_", "q">>
VillQR == <<"q", "_", "r">>
VillR == <<"r">>

\* Records that differ in where they are: resolvable through the registry,
\* not resolvable, without a county in the label, two districts with a
\* village of one name, two counties with a district and a village of one
\* name, with '_' inside a name,
\* without a district, with an empty village.
NameRecords ==
    {Rec(c[1], c[2], c[3], Tally(1, 2, 4)) :
        c \in {<<CaseXinbei9, Yonghe, Guangfu>>,
               <<CaseNoCounty, Yonghe, Guangfu>>,
               <<CaseTaibei3, Daan, VillV>>,
               <<CaseTaibei3, Daan, VillU>>,
               <<CaseXinbei9, Daan, VillV>>,
               <<CaseXinbei9, Yonghe, VillU>>,
               <<CaseNoCounty, Daan, VillU>>,
               <<CaseXinbei9, DistP, VillQR>>,
               <<CaseXinbei9, DistPQ, VillR>>,
               <<CaseTaibei3, None, VillV>>,
               <<CaseTaibei3, Daan, <<>> >>}}

\* Records of one case that differ in their counts: every count of the
\* corrected village, and one station of another village.
TallyRecords ==
    {Rec(CaseXinbei9, Yonghe, Guangfu, Tally(a, d, e)) :
        a \in 0..MaxVotes, d \in 0..MaxVotes, e \in {0, MaxVotes + 1}}
    \cup {Rec(CaseXinbei9, Yonghe, VillU, Tally(1, 0, MaxVotes + 1))}

SeqsUpTo(S, n) == {<<>>} \cup UNION {[1..k -> S] : k \in 1..n}

\* The registry: Yonghe/Guangfu in Xinbei, Daan/v in Taibei (traditional
\* form), and a feature without a village name.
Features ==
    <<[COUNTYNAME |-> Xinbei, TOWNNAME |-> Yonghe, VILLNAME |-> Guangfu,
       VILLCODE |-> CorrectionCode, COUNTYCODE |-> Prefix(CorrectionCode, 5),
       TOWNCODE |-> Prefix(CorrectionCode, 8)],
      [COUNTYNAME |-> TaibeiTrad, TOWNNAME |-> Daan, VILLNAME |-> None,
       VILLCODE |-> CodeM3, COUNTYCODE |-> Prefix(CodeDaanV, 5),
       TOWNCODE |-> Prefix(CodeDaanV, 8)],
      [COUNTYNAME |-> TaibeiTrad, TOWNNAME |-> Daan, VILLNAME |-> VillV,
       VILLCODE |-> CodeDaanV, COUNTYCODE |-> Prefix(CodeDaanV, 5),
       TOWNCODE |-> Prefix(CodeDaanV, 8)]>>

\* main loads the registry once per run; the registry file does not change.
RegistryMap == load_villcode_mapping(Features)

\* An entry of the mapping file for Yonghe_Guangfu, as an operator wrote it.
OverrideEntry(villcode) ==
    [cunli_key |-> CorrectionKey, district |-> Yonghe, village |-> Guangfu,
     county |-> Xinbei, villcode |-> villcode]

\* What an operator types into an empty villcode.
FillCodes == {StrCode(CodeM1), ListCode(<<CodeM2, CodeM3>>)}

-----------------------------------------------------------------------------
(***************************************************************************)
(* add_villcode.py and match_villcode_improved.py: update_cunli_files.     *)
(* A file of cunli_json/ is [filename, isDict, cunli, records, fields]:    *)
(* fields holds those of the six VILLCODE keys the JSON object has.        *)
(***************************************************************************)
SkippedNames == {"summary.json", "villages_without_villcode.json"}
Unknown == <<"U", "n", "k", "n", "o", "w", "n">>

HasKey(data, k) == k \in DOMAIN data.fields

\* add_villcode.load_villcode_mapping: one key per feature
RECURSIVE AddVillcodeLoadFeatures(_, _, _)
AddVillcodeLoadFeatures(features, i, villcode_map) ==
    IF i > Len(features) THEN villcode_map
    ELSE LET props == features[i]
         IN  AddVillcodeLoadFeatures(features, i + 1,
                 IF props.VILLNAME # None
                 THEN DictSet(villcode_map,
                              Key3(props.COUNTYNAME, props.TOWNNAME, props.VILLNAME),
                              VillcodeInfo(props))
                 ELSE villcode_map)

add_villcode_load_villcode_mapping(features) ==
    AddVillcodeLoadFeatures(features, 1, EmptyDict)

\* data.update(villcode_map[key])
DictUpdate(fields, villcode_info) ==
    [k \in (DOMAIN fields) \cup (DOMAIN villcode_info) |->
        IF k \in DOMAIN villcode_info THEN villcode_info[k] ELSE fields[k]]

\* for k, v in villcode_info.items(): if k not in data: data[k] = v
FillMissingKeys(fields, villcode_info) ==
    [k \in (DOMAIN fields) \cup (DOMAIN villcode_info) |->
        IF k \in DOMAIN fields THEN fields[k] ELSE villcode_info[k]]

\* The local variable county of update_cunli_files: unbound until a file
\* with records has been seen, then whatever the last such file left in it.
Unbound == [bound |-> FALSE, value |-> None]
Bound(v) == [bound |-> TRUE, value |-> v]

\* add_villcode.update_cunli_files, one iteration.  acc is [files,
\* updated_count, not_found, county].
AddVillcodeBody(data, acc, villcode_map) ==
    IF data.filename \in SkippedNames
    THEN [acc EXCEPT !.files = Append(@, data)]
    ELSE IF ~data.isDict \/ HasKey(data, "VILLCODE")
    THEN [acc EXCEPT !.files = Append(@, data)]
    ELSE LET cunli_parts == Split(data.cunli, Underscore)
         IN  IF Len(cunli_parts) >= 2
             THEN LET district == cunli_parts[1]
                      village == cunli_parts[2]
                      extracted == IF data.records # <<>>
                                   THEN extract_county_from_recall_case(
                                            data.records[1].recall_case)
                                   ELSE None
                      county == IF data.records = <<>> THEN acc.county
                                ELSE IF Truthy(extracted)
                                THEN Bound(normalize_district_name(extracted))
                                ELSE Bound(extracted)
                      key == Key3(county.value, district, village)
                      found == /\ data.records # <<>>
                               /\ Truthy(extracted)
                               /\ key \in DOMAIN villcode_map
                  IN  IF found
                      THEN [files |-> Append(acc.files,
                                [data EXCEPT !.fields = DictUpdate(@, villcode_map[key])]),
                            updated_count |-> acc.updated_count + 1,
                            not_found |-> acc.not_found,
                            county |-> county]
                      ELSE [files |-> Append(acc.files, data),
                            updated_count |-> acc.updated_count,
                            not_found |-> Append(acc.not_found,
                                [cunli |-> data.cunli,
                                 county |-> IF county.bound THEN county.value
                                            ELSE Unknown,
                                 district |-> district,
                                 village |-> village,
                                 key_tried |-> None]),
                            county |-> county]
             ELSE [acc EXCEPT !.files = Append(@, data)]

RECURSIVE AddVillcodeLoop(_, _, _, _)
AddVillcodeLoop(json_files, i, acc, villcode_map) ==
    IF i > Len(json_files) THEN acc
    ELSE AddVillcodeLoop(json_files, i + 1,
                         AddVillcodeBody(json_files[i], acc, villcode_map),
                         villcode_map)

add_villcode_update_cunli_files(json_files, villcode_map) ==
    AddVillcodeLoop(json_files, 1,
        [files |-> <<>>, updated_count |-> 0, not_found |-> <<>>, county |-> Unbound],
        villcode_map)

\* match_villcode_improved.update_cunli_files, one iteration
MatchImprovedBody(data, acc, villcode_map) ==
    IF data.filename \in SkippedNames
    THEN [acc EXCEPT !.files = Append(@, data)]
    ELSE IF ~data.isDict
    THEN [acc EXCEPT !.files = Append(@, data)]
    ELSE LET cunli_parts == Split(data.cunli, Underscore)
         IN  IF Len(cunli_parts) >= 2
             THEN LET district == cunli_parts[1]
                      village == cunli_parts[2]
                      county == IF data.records # <<>>
                                THEN extract_county_from_recall_case(
                                         data.records[1].recall_case)
                                ELSE None
                      key == Key3(county, district, village)
                  IN  IF Truthy(county)
                      THEN IF key \in DOMAIN villcode_map
                           THEN [acc EXCEPT
                                   !.files = Append(@,
                                       [data EXCEPT !.fields =
                                           FillMissingKeys(@, villcode_map[key])]),
                                   !.updated_count = @ + 1]
                           ELSE [acc EXCEPT
                                   !.files = Append(@, data),
                                   !.not_found = Append(@,
                                       [cunli |-> data.cunli,
                                        county |-> county,
                                        district |-> district,
                                        village |-> village,
                                        key_tried |-> key])]
                      ELSE [acc EXCEPT !.files = Append(@, data)]
             ELSE [acc EXCEPT !.files = Append(@, data)]

RECURSIVE MatchImprovedLoop(_, _, _, _)
MatchImprovedLoop(json_files, i, acc, villcode_map) ==
    IF i > Len(json_files) THEN acc
    ELSE MatchImprovedLoop(json_files, i + 1,
                           MatchImprovedBody(json_files[i], acc, villcode_map),
                           villcode_map)

match_villcode_improved_update_cunli_files(json_files, villcode_map) ==
    MatchImprovedLoop(json_files, 1,
        [files |-> <<>>, updated_count |-> 0, not_found |-> <<>>, county |-> Unbound],
        villcode_map)

(***************************************************************************)
(* Bounds and inputs of the runs of the two resolution scripts.            *)
(***************************************************************************)
MaxFiles == 2

\* add_villcode's registry map; match_villcode_improved builds RegistryMap.
AddVillcodeMap == add_villcode_load_villcode_mapping(Features)

\* Values somebody verified by hand; none is what the registry holds.
VerifiedInfo ==
    [VILLCODE |-> StrCode(CodeM1),
     COUNTYCODE |-> StrCode(Prefix(CodeM1, 5)),
     TOWNCODE |-> StrCode(Prefix(CodeM1, 8)),
     COUNTYNAME |-> TaibeiSimp,
     TOWNNAME |-> Daan,
     VILLNAME |-> VillU]

Restrict(f, S) == [k \in S |-> f[k]]

JsonFile(filename, isDict, cunli, cases, fields) ==
    [filename |-> filename, isDict |-> isDict, cunli |-> cunli,
     records |-> [i \in 1..Len(cases) |-> [recall_case |-> cases[i]]],
     fields |-> fields]

DaanVKey == Daan \o Underscore \o VillV

\* Village documents with no VILLCODE keys, with all six, with the code only
\* and with the names only; summary.json; and a file holding a JSON list.
JsonFiles ==
    {JsonFile("village.json", TRUE, c[1], c[2], Restrict(VerifiedInfo, S)) :
        c \in {<<CorrectionKey, <<CaseXinbei9>> >>,
               <<CorrectionKey, <<>> >>,
               <<CorrectionKey, <<CaseNoCounty>> >>,
               <<DaanVKey, <<CaseTaibei3, CaseTaibei4>> >>,
               <<Daan, <<CaseTaibei3>> >>},
        S \in {{}, DOMAIN VerifiedInfo, {"VILLCODE"},
               {"COUNTYNAME", "TOWNNAME", "VILLNAME"}}}
    \cup {JsonFile("summary.json", TRUE, CorrectionKey, <<CaseXinbei9>>,
                   Restrict(VerifiedInfo, {}))}
    \cup {JsonFile("list.json", FALSE, None, <<>>, Restrict(VerifiedInfo, {}))}

-----------------------------------------------------------------------------
(***************************************************************************)
(* combine_cunli_election_data.py.                                         *)
(* A village document is what extract_and_merge.main dumped: [filename,    *)
(* cunli, total_records, sum_fields, records, info].  An election entry is *)
(* [name, zone, zoneCode, total, votes_all, votes], votes the candidates   *)
(* in the order of the JSON object.                                        *)
(***************************************************************************)
\* load_cunli_data: documents keyed by COUNTYNAME+TOWNNAME+VILLNAME; a later
\* file with the same key replaces an earlier one.
RECURSIVE LoadCunli(_, _, _)
LoadCunli(docs, i, cunli_data) ==
    IF i > Len(docs) THEN cunli_data
    ELSE LoadCunli(docs, i + 1,
            IF docs[i].info = <<>>
            THEN cunli_data
            ELSE DictSet(cunli_data,
                         docs[i].info[1].COUNTYNAME \o docs[i].info[1].TOWNNAME
                             \o docs[i].info[1].VILLNAME,
                         docs[i]))

load_cunli_data(docs) == LoadCunli(docs, 1, EmptyDict)

\* A split that keeps only the piece after the first city character.
SplitCountyFirstPiece(name) ==
    LET by_xian == Split(name, <<"X">>)
        by_shi == Split(name, <<"S">>)
    IN  IF Len(by_xian) = 2
        THEN [ok |-> TRUE, county_name |-> by_xian[1] \o <<"X">>,
              remaining |-> by_xian[2]]
        ELSE IF Len(by_shi) >= 2
        THEN [ok |-> TRUE, county_name |-> by_shi[1] \o <<"S">>,
              remaining |-> by_shi[2]]
        ELSE [ok |-> FALSE, county_name |-> None, remaining |-> None]

\* lines 43-53: county_name and remaining, or nothing
SplitCounty(name) ==
    LET by_xian == Split(name, <<"X">>)
        by_shi == Split(name, <<"S">>)
    IN  IF Len(by_xian) = 2
        THEN [ok |-> TRUE, county_name |-> by_xian[1] \o <<"X">>,
              remaining |-> by_xian[2]]
        ELSE IF Len(by_shi) >= 2
        THEN [ok |-> TRUE, county_name |-> by_shi[1] \o <<"S">>,
              remaining |-> Join(<<"S">>, Tail(by_shi))]
        ELSE [ok |-> FALSE, county_name |-> None, remaining |-> None]

\* A split that also takes a city ("S") for the town of a county.
SplitTownOrCity(remaining) ==
    LET at(c) == [ok |-> TRUE,
                  town_name |-> Split(remaining, c)[1] \o c,
                  village_name |-> Join(c, Tail(Split(remaining, c)))]
    IN  IF Contains(remaining, <<"Q">>) THEN at(<<"Q">>)
        ELSE IF Contains(remaining, <<"Z">>) THEN at(<<"Z">>)
        ELSE IF Contains(remaining, <<"G">>) THEN at(<<"G">>)
        ELSE IF Contains(remaining, <<"S">>) THEN at(<<"S">>)
        ELSE [ok |-> FALSE, town_name |-> None, village_name |-> None]

\* lines 56-69: town_name and village_name, or nothing
SplitTown(remaining) ==
    LET at(c) == [ok |-> TRUE,
                  town_name |-> Split(remaining, c)[1] \o c,
                  village_name |-> Join(c, Tail(Split(remaining, c)))]
    IN  IF Contains(remaining, <<"Q">>) THEN at(<<"Q">>)
        ELSE IF Contains(remaining, <<"Z">>) THEN at(<<"Z">>)
        ELSE IF Contains(remaining, <<"G">>) THEN at(<<"G">>)
        ELSE [ok |-> FALSE, town_name |-> None, village_name |-> None]

\* The last candidate with the most votes: `>=` in place of `>`.
RECURSIVE WinnerLast(_, _, _)
WinnerLast(votes, i, best) ==
    IF i > Len(votes) THEN best
    ELSE WinnerLast(votes, i + 1,
                    IF votes[i].votes >= best.winner_votes
                    THEN [winner_name |-> votes[i].name,
                          winner_party |-> votes[i].party,
                          winner_votes |-> votes[i].votes]
                    ELSE best)

\* lines 79-87: the first candidate with the most votes, if any has a vote
RECURSIVE Winner(_, _, _)
Winner(votes, i, best) ==
    IF i > Len(votes) THEN best
    ELSE Winner(votes, i + 1,
                IF votes[i].votes > best.winner_votes
                THEN [winner_name |-> votes[i].name,
                      winner_party |-> votes[i].party,
                      winner_votes |-> votes[i].votes]
                ELSE best)

DigitChar(k) == <<"0", "1", "2", "3", "4", "5", "6", "7", "8", "9">>[k + 1]
\* 'TbS#0keQ': the zone of an election entry; 'TbS#kejQ': inside a case label
TaibeiElectionZone(k) == TaibeiTrad \o <<"#", "0", DigitChar(k), "e", "Q">>
TaibeiRecallZone(k) == TaibeiTrad \o <<"#", DigitChar(k), "e", "j", "Q">>

\* Every record of a Xinzhu village is appended; the other cities as coded.
RecordMatchesXinzhuAll(county_name, election_zone, recall_case) ==
    IF county_name = Xinzhu THEN TRUE
    ELSE IF county_name = Jilong /\ Contains(recall_case, Jilong \o <<"e", "j", "Q">>)
    THEN TRUE
    ELSE IF county_name = TaibeiTrad
    THEN \E k \in 1..8 : /\ election_zone = TaibeiElectionZone(k)
                         /\ Contains(recall_case, TaibeiRecallZone(k))
    ELSE FALSE

\* Every record is appended, whatever its label.
RecordMatchesAny(county_name, election_zone, recall_case) == TRUE

\* lines 106-129: is the record appended to matching_records
RecordMatches(county_name, election_zone, recall_case) ==
    IF county_name = Xinzhu
    THEN Contains(recall_case, <<"R">>)
    ELSE IF county_name = Jilong /\ Contains(recall_case, Jilong \o <<"e", "j", "Q">>)
    THEN TRUE
    ELSE IF county_name = TaibeiTrad
    THEN \E k \in 1..8 : /\ election_zone = TaibeiElectionZone(k)
                         /\ Contains(recall_case, TaibeiRecallZone(k))
    ELSE FALSE

MatchingRecords(county_name, election_zone, records) ==
    LET idx == SelectIdx(Len(records),
                   {i \in 1..Len(records) :
                       RecordMatches(county_name, election_zone, records[i].recall_case)})
    IN  [j \in 1..Len(idx) |-> records[idx[j]]]

\* A turnout rate: sum_fields holds it rounded to hundredths, lines 141-142
\* compute it unrounded (the float's own rounding is left out).
RoundedRate(hundredths) == [num |-> hundredths, den |-> 100]
ExactRate(total_voters, eligible_voters) ==
    IF eligible_voters > 0
    THEN [num |-> total_voters * 100, den |-> eligible_voters]
    ELSE [num |-> 0, den |-> 1]

\* recall_data that is never recomputed from the matching records.
RecallDataNeverRecomputed(cunli_info, county_name, election_zone) ==
    [agree_votes |-> cunli_info.sum_fields.agree_votes,
     disagree_votes |-> cunli_info.sum_fields.disagree_votes,
     valid_votes |-> cunli_info.sum_fields.valid_votes,
     invalid_votes |-> cunli_info.sum_fields.invalid_votes,
     eligible_voters |-> cunli_info.sum_fields.eligible_voters,
     average_turnout_rate |-> RoundedRate(cunli_info.sum_fields.average_turnout_rate),
     recall_case_name |-> IF cunli_info.records # <<>>
                          THEN cunli_info.records[1].recall_case ELSE <<>>,
     matching_records |->
         IF Cardinality({cunli_info.records[i].recall_case :
                            i \in 1..Len(cunli_info.records)}) > 1
         THEN MatchingRecords(county_name, election_zone, cunli_info.records)
         ELSE <<>>]

\* lines 90-143: recall_data, recall_case_name and matching_records (empty
\* when the village has one case)
RecallData(cunli_info, county_name, election_zone) ==
    LET records == cunli_info.records
        recall_cases == {records[i].recall_case : i \in 1..Len(records)}
        matching_records == IF Cardinality(recall_cases) > 1
                            THEN MatchingRecords(county_name, election_zone, records)
                            ELSE <<>>
    IN  IF matching_records # <<>>
        THEN [agree_votes |-> SumOf(matching_records, "agree_votes"),
              disagree_votes |-> SumOf(matching_records, "disagree_votes"),
              valid_votes |-> SumOf(matching_records, "valid_votes"),
              invalid_votes |-> SumOf(matching_records, "invalid_votes"),
              eligible_voters |-> SumOf(matching_records, "eligible_voters"),
              average_turnout_rate |->
                  ExactRate(SumOf(matching_records, "total_voters"),
                            SumOf(matching_records, "eligible_voters")),
              recall_case_name |-> matching_records[1].recall_case,
              matching_records |-> matching_records]
        ELSE [agree_votes |-> cunli_info.sum_fields.agree_votes,
              disagree_votes |-> cunli_info.sum_fields.disagree_votes,
              valid_votes |-> cunli_info.sum_fields.valid_votes,
              invalid_votes |-> cunli_info.sum_fields.invalid_votes,
              eligible_voters |-> cunli_info.sum_fields.eligible_voters,
              average_turnout_rate |->
                  RoundedRate(cunli_info.sum_fields.average_turnout_rate),
              recall_case_name |-> IF records # <<>> THEN records[1].recall_case
                                   ELSE <<>>,
              matching_records |-> matching_records]

\* lines 40-174, one iteration.  acc is [combined_results, matching_log];
\* matching_log keeps, per result, the matching_records the iteration built.
CombineBody(election_info, cunli_data, acc) ==
    LET county == SplitCounty(election_info.name)
        town == SplitTown(county.remaining)
        match_key == county.county_name \o town.town_name \o town.village_name
    IN  IF ~county.ok THEN acc
        ELSE IF ~town.ok THEN acc
        ELSE IF match_key \in DOMAIN cunli_data
        THEN LET cunli_info == cunli_data[match_key]
                 winner == Winner(election_info.votes, 1,
                                  [winner_name |-> "", winner_party |-> "",
                                   winner_votes |-> 0])
                 recall_data == RecallData(cunli_info, county.county_name,
                                           election_info.zone)
                 combined_record ==
                     [VILLCODE |-> cunli_info.info[1].VILLCODE,
                      COUNTYNAME |-> cunli_info.info[1].COUNTYNAME,
                      TOWNNAME |-> cunli_info.info[1].TOWNNAME,
                      VILLNAME |-> cunli_info.info[1].VILLNAME,
                      election_zone |-> election_info.zone,
                      election_zone_code |-> election_info.zoneCode,
                      total_election_votes |-> election_info.total,
                      eligible_voters_election |-> election_info.votes_all,
                      winner_name |-> winner.winner_name,
                      winner_party |-> winner.winner_party,
                      winner_votes |-> winner.winner_votes,
                      recall_agree_votes |-> recall_data.agree_votes,
                      recall_disagree_votes |-> recall_data.disagree_votes,
                      recall_valid_votes |-> recall_data.valid_votes,
                      recall_invalid_votes |-> recall_data.invalid_votes,
                      recall_eligible_voters |-> recall_data.eligible_voters,
                      recall_turnout_rate |-> recall_data.average_turnout_rate,
                      recall_case |-> recall_data.recall_case_name,
                      candidates |-> election_info.votes]
             IN  [combined_results |-> Append(acc.combined_results, combined_record),
                  matching_log |-> Append(acc.matching_log,
                                          recall_data.matching_records)]
        ELSE acc

RECURSIVE CombineLoop(_, _, _, _)
CombineLoop(election_data, i, cunli_data, acc) ==
    IF i > Len(election_data) THEN acc
    ELSE CombineLoop(election_data, i + 1, cunli_data,
                     CombineBody(election_data[i], cunli_data, acc))

combine_data(cunli_data, election_data) ==
    CombineLoop(election_data, 1, cunli_data,
                [combined_results |-> <<>>, matching_log |-> <<>>])

(***************************************************************************)
(* Bounds and inputs of the runs of combine_cunli_election_data.           *)
(***************************************************************************)
MaxEntries == 2

Zhanghua == <<"B", "X">>
ZhanghuaCity == <<"B", "S">>
Dong == <<"d", "Q">>
VillY == <<"i">>
CodeDongU == <<"1", "0", "0", "1", "8", "0", "1", "0", "0", "0", "2">>
CodeZhanghuaY == <<"1", "0", "0", "0", "7", "0", "1", "0", "0", "0", "3">>

Feature(county, town, village, code) ==
    [COUNTYNAME |-> county, TOWNNAME |-> town, VILLNAME |-> village,
     VILLCODE |-> code, COUNTYCODE |-> Prefix(code, 5), TOWNCODE |-> Prefix(code, 8)]

\* The document main dumps for a village the registry resolves (lines 228-305).
VillageDoc(feature, records) ==
    [filename |-> feature.VILLCODE,
     cunli |-> CunliKey(records[1]),
     total_records |-> Len(records),
     sum_fields |-> SumFieldsFile(records),
     records |-> records,
     info |-> <<VillcodeInfo(feature)>>]

\* The document main dumps for a village nothing resolves.
UnresolvedDoc(records) ==
    [filename |-> CunliKey(records[1]),
     cunli |-> CunliKey(records[1]),
     total_records |-> Len(records),
     sum_fields |-> SumFieldsFile(records),
     records |-> records,
     info |-> <<>>]

\* Daan/v voted in one or in two Taibei cases (zones 3 and 4).
TaibeiStations ==
    {<<Rec(CaseTaibei3, Daan, VillV, Tally(1, 0, 4))>>,
     <<Rec(CaseTaibei3, Daan, VillV, Tally(1, 0, 4)),
       Rec(CaseTaibei4, Daan, VillV, Tally(0, 2, 4))>>,
     <<Rec(CaseTaibei4, Daan, VillV, Tally(0, 2, 4)),
       Rec(CaseTaibei3, Daan, VillV, Tally(1, 0, 4)),
       Rec(CaseTaibei3, Daan, VillV, Tally(4, 0, 9))>>}

\* Dong/u of Xinzhu voted in the legislator's and in the mayor's recall.
XinzhuStations ==
    <<Rec(CaseXinzhuMayor, Dong, VillU, Tally(2, 1, 4)),
      Rec(CaseXinzhuLegislator, Dong, VillU, Tally(1, 1, 4))>>

\* The same village with two stations in the legislator's recall, and with
\* the mayor's recall only.
XinzhuTwoStations ==
    <<Rec(CaseXinzhuLegislator, Dong, VillU, Tally(1, 1, 4)),
      Rec(CaseXinzhuMayor, Dong, VillU, Tally(2, 1, 4)),
      Rec(CaseXinzhuLegislator, Dong, VillU, Tally(0, 3, 5))>>
XinzhuMayorOnly ==
    <<Rec(CaseXinzhuMayor, Dong, VillU, Tally(2, 1, 4))>>

\* The directory of village documents, in the order glob lists them.
CunliDirs ==
    {<<VillageDoc(Feature(TaibeiTrad, Daan, VillV, CodeDaanV), rs),
       VillageDoc(Feature(Xinzhu, Dong, VillU, CodeDongU), xs),
       VillageDoc(Feature(Zhanghua, ZhanghuaCity, VillY, CodeZhanghuaY),
                  <<Rec(CaseNoCounty, ZhanghuaCity, VillY, Tally(1, 1, 3))>>),
       VillageDoc(Feature(Xinzhu, Dong, <<"S", "Q", "u">>,
                          <<"1", "0", "0", "1", "8", "0", "1", "0", "0", "0", "9">>),
                  <<Rec(CaseXinzhuLegislator, Dong, <<"S", "Q", "u">>, Tally(1, 1, 3))>>),
       UnresolvedDoc(<<Rec(CaseNoCounty, Daan, VillU, Tally(1, 1, 3))>>)>> :
        rs \in TaibeiStations,
        xs \in {XinzhuStations, XinzhuTwoStations, XinzhuMayorOnly}}

Candidate(name, party, votes, no) ==
    [name |-> name, party |-> party, votes |-> votes, no |-> no]

Ballots ==
    {<<Candidate("A", "KMT", 2, 1), Candidate("B", "DPP", 3, 2)>>,
     <<Candidate("A", "KMT", 0, 1)>>}

\* Two candidates with the most votes: the first two, and the last two.
TiedBallots ==
    {<<Candidate("A", "KMT", 2, 1), Candidate("B", "DPP", 2, 2)>>,
     <<Candidate("A", "KMT", 1, 1), Candidate("B", "DPP", 3, 2),
       Candidate("C", "TPP", 3, 3)>>}

Entry(name, zone, zoneCode, votes) ==
    [name |-> name, zone |-> zone, zoneCode |-> zoneCode,
     total |-> SumOf(votes, "votes"), votes_all |-> SumOf(votes, "votes") + 1,
     votes |-> votes]

XinzhuZone == Xinzhu \o <<"e", "Q">>
ZhanghuaZone == Zhanghua \o <<"#", "0", "1", "e", "Q">>

\* election_data: Daan/v asked for zones 3, 4 and 5; a village of Xinzhu;
\* a village of a county-administered city; a village no document names;
\* a name with neither a county nor a city in it; a village whose own name
\* holds the city and the district character; a name with the county twice.
Entries ==
    {Entry(TaibeiTrad \o Daan \o VillV, TaibeiElectionZone(k), <<"0", DigitChar(k)>>, b) :
        k \in 3..5, b \in Ballots}
    \cup {Entry(Xinzhu \o Dong \o VillU, XinzhuZone, <<"0", "0">>, b) :
             b \in Ballots \cup TiedBallots}
    \cup {Entry(Zhanghua \o ZhanghuaCity \o VillY, ZhanghuaZone, <<"0", "1">>, b) :
             b \in Ballots}
    \cup {Entry(TaibeiTrad \o Daan \o VillU, TaibeiElectionZone(3), <<"0", "3">>, b) :
             b \in Ballots}
    \cup {Entry(<<"o", "o">>, TaibeiElectionZone(3), <<"0", "3">>, b) : b \in Ballots}
    \cup {Entry(Xinzhu \o Dong \o <<"S", "Q", "u">>, XinzhuZone, <<"0", "0">>,
                <<Candidate("A", "KMT", 2, 1), Candidate("B", "DPP", 3, 2)>>),
          Entry(Zhanghua \o Zhanghua \o ZhanghuaCity \o Dong \o VillY, ZhanghuaZone,
                <<"0", "1">>, <<Candidate("A", "KMT", 2, 1), Candidate("B", "DPP", 3, 2)>>)}

-----------------------------------------------------------------------------
(***************************************************************************)
(* State.  Each script reads its inputs from disk, runs to completion and  *)
(* leaves its outputs; one action is one run of one script.                *)
(***************************************************************************)
VARIABLES
    raw,                  \* the records the spreadsheets hold (input)
    mapping_file,         \* missing_villcode_mapping.json
    ran,                  \* main has run at least once
    all_data,             \* main's all_data, after the run
    cunli_merged,         \* main's cunli_merged
    manual_villcode_map,  \* main's manual_villcode_map, as loaded
    written,              \* the per-village documents, in the order dumped
    villcode_files,       \* main's villcode_files
    missing_villcode,     \* main's missing_villcode
    cunli_summary,        \* cunli_summary.json
    case_details,         \* recall_cases.json, case_details
    cunli_files,          \* cunli_json/*.json as the resolution scripts see it
    script,               \* the resolution script that ran last
    updated_count,        \* update_cunli_files' first result
    not_found,            \* update_cunli_files' second result
    cunli_docs,           \* docs/cunli_json/*.json as combine reads it
    election_data,        \* the election results, in the order of the JSON
    combined,             \* combine_data has run
    combined_results,     \* combine_data's result
    matching_log,         \* matching_records of each result's iteration
    csv_rows,             \* cunli_combined_results.csv as analyze_vote_gaps reads it
    analyzed,             \* how analyze_vote_gaps ended: "none", "done", "KeyError"
    kmt_results,          \* analyze_vote_gaps' kmt_results
    non_kmt_results,      \* analyze_vote_gaps' non_kmt_results
    kmt_csv,              \* kmt_winners_vote_gaps.csv, once written
    non_kmt_csv,          \* non_kmt_winners_vote_gaps.csv, once written
    xlsx_files,           \* raw/*.xlsx as main's extraction loop reads it
    extract_status,       \* how the extraction loop ended: "none", "done", "IndexError"
    extracted,            \* what extract_excel_data did with each file
    extracted_data,       \* all_data when the extraction loop ended
    norm_input,           \* a name given to normalize_district_name
    norm_output,          \* the results of the successive calls on it
    basecode_features,    \* basecode_data['features'] of a registry file
    registry_loaded,      \* load_villcode_mapping has returned
    registry_map          \* the villcode_map it returned

mainVars == <<raw, mapping_file, ran, all_data, cunli_merged, manual_villcode_map,
              written, villcode_files, missing_villcode, cunli_summary, case_details>>
resolveVars == <<cunli_files, script, updated_count, not_found>>
combineVars == <<cunli_docs, election_data, combined, combined_results, matching_log>>
analyzeVars == <<csv_rows, analyzed, kmt_results, non_kmt_results, kmt_csv, non_kmt_csv>>
extractVars == <<xlsx_files, extract_status, extracted, extracted_data>>
normalizeVars == <<norm_input, norm_output>>
registryVars == <<basecode_features, registry_loaded, registry_map>>
toolVars == <<analyzeVars, extractVars, normalizeVars, registryVars>>
vars == <<mainVars, resolveVars, combineVars, toolVars>>

MainIdle ==
    /\ ran = FALSE
    /\ all_data = <<>>
    /\ cunli_merged = <<>>
    /\ manual_villcode_map = EmptyDict
    /\ written = <<>>
    /\ villcode_files = <<>>
    /\ missing_villcode = <<>>
    /\ cunli_summary = EmptyDict
    /\ case_details = EmptyDict

ResolveIdle ==
    /\ script = "none"
    /\ updated_count = 0
    /\ not_found = <<>>

CombineIdle ==
    /\ combined = FALSE
    /\ combined_results = <<>>
    /\ matching_log = <<>>

AnalyzeIdle ==
    /\ analyzed = "none"
    /\ kmt_results = <<>>
    /\ non_kmt_results = <<>>
    /\ kmt_csv = <<>>
    /\ non_kmt_csv = <<>>

\* One run of main() over the spreadsheets, the registry and the mapping file.
RunMain ==
    /\ ran' = TRUE
    /\ manual_villcode_map' = load_manual_villcode_mapping(mapping_file)
    /\ cunli_merged' = merge_by_cunli(raw)
    /\ \E acc \in {FileLoop(cunli_merged', 1,
                             [all_data |-> raw, written |-> <<>>,
                              villcode_files |-> <<>>, missing_villcode |-> <<>>],
                             RegistryMap, manual_villcode_map')} :
          /\ all_data' = acc.all_data
          /\ written' = acc.written
          /\ villcode_files' = acc.villcode_files
          /\ missing_villcode' = acc.missing_villcode
    /\ cunli_summary' = SummaryLoop(cunli_merged', 1, all_data', EmptyDict,
                                    RegistryMap, manual_villcode_map')
    /\ case_details' = [case \in RecallCases(all_data') |->
                           CaseTotals(case, all_data', RegistryMap,
                                      manual_villcode_map')]
    /\ mapping_file' = SaveMissing(mapping_file, missing_villcode')
    /\ UNCHANGED <<raw, resolveVars, combineVars, toolVars>>

\* Between runs an operator fills the empty villcode of one entry.
OperatorFill ==
    /\ mapping_file.exists
    /\ \E i \in 1..Len(mapping_file.entries), code \in FillCodes :
          /\ ~CodeFilled(mapping_file.entries[i].villcode)
          /\ mapping_file' = [mapping_file EXCEPT !.entries[i].villcode = code]
    /\ UNCHANGED <<raw, ran, all_data, cunli_merged, manual_villcode_map, written,
                   villcode_files, missing_villcode, cunli_summary, case_details,
                   resolveVars, combineVars, toolVars>>

\* One run of add_villcode.py.
RunAddVillcode ==
    LET res == add_villcode_update_cunli_files(cunli_files, AddVillcodeMap)
    IN  /\ cunli_files' = res.files
        /\ updated_count' = res.updated_count
        /\ not_found' = res.not_found
        /\ script' = "add_villcode"
        /\ UNCHANGED <<mainVars, combineVars, toolVars>>

\* One run of match_villcode_improved.py.
RunMatchVillcodeImproved ==
    LET res == match_villcode_improved_update_cunli_files(cunli_files, RegistryMap)
    IN  /\ cunli_files' = res.files
        /\ updated_count' = res.updated_count
        /\ not_found' = res.not_found
        /\ script' = "match_villcode_improved"
        /\ UNCHANGED <<mainVars, combineVars, toolVars>>

\* One run of combine_cunli_election_data.py, up to the CSV it writes.
RunCombine ==
    LET res == combine_data(load_cunli_data(cunli_docs), election_data)
    IN  /\ combined' = TRUE
        /\ combined_results' = res.combined_results
        /\ matching_log' = res.matching_log
        /\ UNCHANGED <<mainVars, resolveVars, cunli_docs, election_data, toolVars>>

(***************************************************************************)
(* Specifications.                                                         *)
(***************************************************************************)
NoResolveInput == cunli_files = <<>> /\ ResolveIdle
NoCombineInput == cunli_docs = <<>> /\ election_data = <<>> /\ CombineIdle
NoMainInput == raw = <<>> /\ mapping_file = NoFile /\ MainIdle
NoAnalyzeInput == csv_rows = <<>> /\ AnalyzeIdle
ExtractIdle == extract_status = "none" /\ extracted = <<>> /\ extracted_data = <<>>
NoExtractInput == xlsx_files = <<>> /\ ExtractIdle
NoNormalizeInput == norm_input = <<>> /\ norm_output = <<>>
NoRegistryInput == basecode_features = <<>> /\ registry_loaded = FALSE /\ registry_map = EmptyDict
NoToolsInput == NoAnalyzeInput /\ NoExtractInput /\ NoNormalizeInput /\ NoRegistryInput

\* Runs of main over records that differ in where they are, with the
\* operator at the mapping file between runs.
Init ==
    /\ raw \in SeqsUpTo(NameRecords, MaxRecords)
    /\ mapping_file \in {NoFile,
                         FileOf(<<OverrideEntry(StrCode(CodeM1))>>),
                         FileOf(<<OverrideEntry(ListCode(<<CodeM2, CodeM3>>))>>)}
    /\ MainIdle
    /\ NoResolveInput
    /\ NoCombineInput
    /\ NoToolsInput

Next == RunMain \/ OperatorFill

Spec == Init /\ [][Next]_vars

\* Runs of main over records that differ in their counts.
InitTally ==
    /\ raw \in SeqsUpTo(TallyRecords, MaxRecords)
    /\ mapping_file \in {NoFile, FileOf(<<OverrideEntry(StrCode(CorrectionCode))>>)}
    /\ MainIdle
    /\ NoResolveInput
    /\ NoCombineInput
    /\ NoToolsInput

NextTally == RunMain

SpecTally == InitTally /\ [][NextTally]_vars

\* Runs of the two resolution scripts over a directory of village files.
InitResolve ==
    /\ cunli_files \in SeqsUpTo(JsonFiles, MaxFiles)
    /\ ResolveIdle
    /\ NoMainInput
    /\ NoCombineInput
    /\ NoToolsInput

NextResolve == RunAddVillcode \/ RunMatchVillcodeImproved

SpecResolve == InitResolve /\ [][NextResolve]_vars

\* The election results hold one entry per village.
DistinctNames(es) ==
    \A i, k \in 1..Len(es) : es[i].name = es[k].name => i = k

\* Runs of combine_data over village documents and election entries.
InitCombine ==
    /\ cunli_docs \in CunliDirs
    /\ election_data \in {es \in SeqsUpTo(Entries, MaxEntries) : DistinctNames(es)}
    /\ CombineIdle
    /\ NoMainInput
    /\ NoResolveInput
    /\ NoToolsInput

NextCombine == RunCombine

SpecCombine == InitCombine /\ [][NextCombine]_vars

-----------------------------------------------------------------------------
(***************************************************************************)
(* analyze_vote_gaps.py.  A row of cunli_combined_results.csv is           *)
(* [VILLCODE, winner_party, winner_votes, recall_agree_votes,              *)
(* recall_disagree_votes]; "KMT" stands for the party name the script      *)
(* tests, "" for the empty cell of an entry without a winner.              *)
(***************************************************************************)
\* Every row is compared with recall_agree_votes.
GapRowAgreeOnly(row) ==
    [VILLCODE |-> row.VILLCODE, winner_party |-> row.winner_party,
     winner_votes |-> row.winner_votes,
     recall_agree_votes |-> row.recall_agree_votes,
     recall_disagree_votes |-> row.recall_disagree_votes,
     compared_with |-> "recall_agree_votes",
     gap |-> row.winner_votes - row.recall_agree_votes]

\* lines 31-44: the row appended to kmt_results or to non_kmt_results
GapRow(row) ==
    [VILLCODE |-> row.VILLCODE, winner_party |-> row.winner_party,
     winner_votes |-> row.winner_votes,
     recall_agree_votes |-> row.recall_agree_votes,
     recall_disagree_votes |-> row.recall_disagree_votes,
     compared_with |-> IF row.winner_party = "KMT" THEN "recall_disagree_votes"
                       ELSE "recall_agree_votes",
     gap |-> IF row.winner_party = "KMT"
             THEN row.winner_votes - row.recall_disagree_votes
             ELSE row.winner_votes - row.recall_agree_votes]

\* lines 13-44: the rows of one class, in input order
GapRows(rows, kmt) ==
    LET idx == SelectIdx(Len(rows),
                   {i \in 1..Len(rows) : (rows[i].winner_party = "KMT") = kmt})
    IN  [j \in 1..Len(idx) |-> GapRow(rows[idx[j]])]

\* lines 50-51: sort_values('gap', ascending=False) with the default
\* quicksort, which does not fix the order of rows with equal gaps.
DescendingOrders(results) ==
    LET n == Len(results)
        orders == {p \in [1..n -> 1..n] :
                      /\ \A i, j \in 1..n : p[i] = p[j] => i = j
                      /\ \A i \in 1..(n - 1) :
                            results[p[i]].gap >= results[p[i + 1]].gap}
    IN  {[i \in 1..n |-> results[p[i]]] : p \in orders}

MaxRows == 3

CsvRow(party, tally) ==
    [VILLCODE |-> tally[1], winner_party |-> party, winner_votes |-> tally[2],
     recall_agree_votes |-> tally[3], recall_disagree_votes |-> tally[4]]

CsvRows ==
    {CsvRow(party, tally) :
        party \in {"KMT", "DPP", ""},
        tally \in {<<CodeDaanV, 3, 1, 2>>, <<CodeDongU, 1, 2, 0>>,
                   <<CodeZhanghuaY, 2, 2, 2>>}}

\* One run of analyze_vote_gaps().  A DataFrame built from an empty list has
\* no 'gap' column, so sort_values raises KeyError (line 50 or 51) and
\* nothing is written.
RunAnalyze ==
    /\ kmt_results' = GapRows(csv_rows, TRUE)
    /\ non_kmt_results' = GapRows(csv_rows, FALSE)
    /\ IF kmt_results' = <<>> \/ non_kmt_results' = <<>>
       THEN /\ analyzed' = "KeyError"
            /\ UNCHANGED <<kmt_csv, non_kmt_csv>>
       ELSE /\ analyzed' = "done"
            /\ kmt_csv' \in DescendingOrders(kmt_results')
            /\ non_kmt_csv' \in DescendingOrders(non_kmt_results')
    /\ UNCHANGED <<mainVars, resolveVars, combineVars, extractVars, normalizeVars, registryVars, csv_rows>>

\* Runs of analyze_vote_gaps over a combined export.
InitAnalyze ==
    /\ csv_rows \in SeqsUpTo(CsvRows, MaxRows)
    /\ AnalyzeIdle
    /\ NoExtractInput
    /\ NoNormalizeInput
    /\ NoRegistryInput
    /\ NoMainInput
    /\ NoResolveInput
    /\ NoCombineInput

NextAnalyze == RunAnalyze

SpecAnalyze == InitAnalyze /\ [][NextAnalyze]_vars

-----------------------------------------------------------------------------
(***************************************************************************)
(* extract_and_merge.extract_excel_data and the loop of main that calls    *)
(* it.  A spreadsheet is [filename, df]; df is the sequence of its rows    *)
(* (row i of pandas is df[i + 1]); a row is [c0, c1, c2, counts, rate]:    *)
(* columns 0, 1, 2, the nine columns 3..11 and column 12.  A cell is       *)
(* [kind, n, s]: "nan" (empty), "num" (the number n) or "str" (the text    *)
(* s).  "H" stands for the header text, "P" for the table prefix of a file *)
(* name and "." for its '.xlsx'.                                           *)
(***************************************************************************)
Cell(kind, n, s) == [kind |-> kind, n |-> n, s |-> s]

\* range(10) of the header search (line 14) and the offset of the first data
\* row from the header row (line 30)
HeaderSearchRows == 10
HeaderOffset == 5

\* The value of a decimal literal without sign.
RECURSIVE DigitsValue(_)
DigitsValue(s) ==
    IF s = <<>> THEN 0
    ELSE 10 * DigitsValue(SubSeq(s, 1, Len(s) - 1))
         + (CHOOSE d \in 0..9 : DigitChar(d) = s[Len(s)])

\* str.strip(): without the blanks at either end.
Strip(s) ==
    LET inked == {i \in 1..Len(s) : s[i] # " "}
    IN  IF inked = {} THEN <<>>
        ELSE SubSeq(s, CHOOSE i \in inked : \A j \in inked : i <= j,
                       CHOOSE i \in inked : \A j \in inked : i >= j)

\* A conversion under which no text is malformed.
IntOrZeroOfAnything(cell) ==
    [raises |-> FALSE, value |-> IF cell.kind = "num" THEN cell.n ELSE 0]

\* int(cell) if pd.notna(cell) else 0 (lines 47-55): the value, or that
\* int() raises ValueError.
IntOrZero(cell) ==
    IF cell.kind = "nan" THEN [raises |-> FALSE, value |-> 0]
    ELSE IF cell.kind = "num" THEN [raises |-> FALSE, value |-> cell.n]
    ELSE IF Strip(cell.s) # <<>> /\ \A i \in 1..Len(Strip(cell.s)) : IsDigit(Strip(cell.s)[i])
    THEN [raises |-> FALSE, value |-> DigitsValue(Strip(cell.s))]
    ELSE [raises |-> TRUE, value |-> 0]

\* float(str(cell).replace('%', '')) if pd.notna(cell) else 0.0 (line 56),
\* for whole percentages.
FloatOrZero(cell) ==
    IF cell.kind = "str"
    THEN IntOrZero(Cell("str", 0, Replace(cell.s, <<"%">>, <<>>)))
    ELSE IntOrZero(cell)

\* str(cell).strip() of a text cell; of a number, its digits.
StrStrip(cell) ==
    IF cell.kind = "str" THEN Strip(cell.s) ELSE <<DigitChar(cell.n)>>

\* A village row whose thirteen-column record cannot be built.
RowRaises(row) ==
    \/ \E k \in 1..Len(row.counts) : IntOrZero(row.counts[k]).raises
    \/ FloatOrZero(row.rate).raises

\* lines 40-57: the record of a village row
RowRecord(row, recall_info, current_district) ==
    [recall_case |-> recall_info,
     district |-> current_district,
     village |-> StrStrip(row.c1),
     polling_station |-> StrStrip(row.c2),
     agree_votes |-> IntOrZero(row.counts[1]).value,
     disagree_votes |-> IntOrZero(row.counts[2]).value,
     valid_votes |-> IntOrZero(row.counts[3]).value,
     invalid_votes |-> IntOrZero(row.counts[4]).value,
     total_voters |-> IntOrZero(row.counts[5]).value,
     ballots_not_cast |-> IntOrZero(row.counts[6]).value,
     ballots_issued |-> IntOrZero(row.counts[7]).value,
     unused_ballots |-> IntOrZero(row.counts[8]).value,
     eligible_voters |-> IntOrZero(row.counts[9]).value,
     turnout_rate |-> FloatOrZero(row.rate).value]

\* A loop that takes the first cell of every row that has one as the
\* district, village rows included.
RECURSIVE ExtractRowsFirstCellIsDistrict(_, _, _, _, _)
ExtractRowsFirstCellIsDistrict(df, idx, recall_info, current_district, results) ==
    IF idx >= Len(df) THEN results
    ELSE LET row == df[idx + 1]
             district == IF row.c0.kind # "nan" THEN StrStrip(row.c0) ELSE current_district
         IN  IF row.c1.kind # "nan" /\ row.c2.kind # "nan" /\ ~RowRaises(row)
             THEN ExtractRowsFirstCellIsDistrict(df, idx + 1, recall_info, district,
                      Append(results, RowRecord(row, recall_info, district)))
             ELSE ExtractRowsFirstCellIsDistrict(df, idx + 1, recall_info, district, results)

\* lines 30-61: the loop over the data rows, from pandas row idx on
RECURSIVE ExtractRows(_, _, _, _, _)
ExtractRows(df, idx, recall_info, current_district, results) ==
    IF idx >= Len(df) THEN results
    ELSE LET row == df[idx + 1]
         IN  IF row.c0.kind # "nan" /\ row.c1.kind = "nan"
             THEN ExtractRows(df, idx + 1, recall_info, StrStrip(row.c0), results)
             ELSE IF row.c1.kind # "nan" /\ row.c2.kind # "nan" /\ ~RowRaises(row)
             THEN ExtractRows(df, idx + 1, recall_info, current_district,
                              Append(results, RowRecord(row, recall_info, current_district)))
             ELSE ExtractRows(df, idx + 1, recall_info, current_district, results)

\* extract_excel_data: [raises, warned, results].  df.iloc[i, 0] raises
\* IndexError when the search reaches a row the sheet does not have.
extract_excel_data(file) ==
    LET df == file.df
        found == {i \in 0..(HeaderSearchRows - 1) :
                     /\ i < Len(df)
                     /\ df[i + 1].c0 = Cell("str", 0, <<"H">>)}
        header_row == CHOOSE i \in found : \A j \in found : i <= j
        recall_info == Replace(Replace(file.filename, <<"P">>, <<>>), <<".">>, <<>>)
    IN  IF found = {}
        THEN IF Len(df) < HeaderSearchRows
             THEN [raises |-> TRUE, warned |-> FALSE, results |-> <<>>]
             ELSE [raises |-> FALSE, warned |-> TRUE, results |-> <<>>]
        ELSE [raises |-> FALSE, warned |-> FALSE,
              results |-> ExtractRows(df, header_row + HeaderOffset, recall_info,
                                      None, <<>>)]

\* The spreadsheets of the runs below.
MaxSheetRows == 2

\* A row from its first three cells, its first count, its other counts and
\* its turnout cell.
SheetRow(c0, c1, c2, first, rest, rate) ==
    [c0 |-> c0, c1 |-> c1, c2 |-> c2,
     counts |-> [k \in 1..9 |-> IF k = 1 THEN first ELSE rest],
     rate |-> rate]

BlankRow ==
    SheetRow(Cell("nan", 0, <<>>), Cell("nan", 0, <<>>), Cell("nan", 0, <<>>),
             Cell("nan", 0, <<>>), Cell("nan", 0, <<>>), Cell("nan", 0, <<>>))

\* Rows below the header: district rows, village rows with well-formed,
\* blank, textual and malformed numbers, and rows that are neither.
DataRows ==
    {SheetRow(Cell("str", 0, name), Cell("nan", 0, <<>>), Cell("nan", 0, <<>>),
              Cell("num", 9, <<>>), Cell("num", 1, <<>>), Cell("str", 0, <<"5", "%">>)) :
        name \in {<<"y", "Q">>, <<" ", "w", "Q", " ">>}}
    \cup {SheetRow(c0, Cell("str", 0, <<"a", " ">>), Cell("num", 4, <<>>),
                   n[1], n[2], n[3]) :
            c0 \in {Cell("nan", 0, <<>>), Cell("str", 0, <<"v", "Q">>)},
            n \in {<<Cell("num", 3, <<>>), Cell("num", 1, <<>>), Cell("str", 0, <<"5", "%">>)>>,
                   <<Cell("nan", 0, <<>>), Cell("nan", 0, <<>>), Cell("nan", 0, <<>>)>>,
                   <<Cell("str", 0, <<" ", "2">>), Cell("num", 1, <<>>), Cell("num", 7, <<>>)>>,
                   <<Cell("str", 0, <<"x">>), Cell("num", 1, <<>>), Cell("str", 0, <<"5", "%">>)>>,
                   <<Cell("num", 3, <<>>), Cell("str", 0, <<>>), Cell("num", 7, <<>>)>>,
                   <<Cell("num", 3, <<>>), Cell("num", 1, <<>>), Cell("str", 0, <<"x", "%">>)>>}}
    \cup {SheetRow(Cell("nan", 0, <<>>), Cell("str", 0, <<"a">>), Cell("nan", 0, <<>>),
                   Cell("num", 3, <<>>), Cell("num", 1, <<>>), Cell("num", 7, <<>>)),
          BlankRow}

\* A spreadsheet: title rows, the header row unless it is missing, the rows
\* the offset skips (column labels, a blank row, the row of totals) and the
\* data rows.
Sheet(label, titles, headed, data) ==
    [filename |-> <<"P">> \o label \o <<".">>,
     df |-> [i \in 1..titles |->
                SheetRow(Cell("str", 0, <<"m">>), Cell("nan", 0, <<>>), Cell("nan", 0, <<>>),
                         Cell("nan", 0, <<>>), Cell("nan", 0, <<>>), Cell("nan", 0, <<>>))]
            \o (IF headed
                THEN <<SheetRow(Cell("str", 0, <<"H">>), Cell("str", 0, <<"l">>),
                                Cell("str", 0, <<"p">>), Cell("str", 0, <<"o">>),
                                Cell("str", 0, <<"o">>), Cell("str", 0, <<"o">>))>>
                ELSE <<>>)
            \o <<SheetRow(Cell("nan", 0, <<>>), Cell("nan", 0, <<>>), Cell("nan", 0, <<>>),
                          Cell("str", 0, <<"o">>), Cell("str", 0, <<"o">>),
                          Cell("str", 0, <<"o">>)),
                 SheetRow(Cell("nan", 0, <<>>), Cell("str", 0, <<"l">>), Cell("str", 0, <<"p">>),
                          Cell("num", 1, <<>>), Cell("num", 1, <<>>), Cell("num", 1, <<>>)),
                 BlankRow,
                 SheetRow(Cell("str", 0, <<"u">>), Cell("nan", 0, <<>>), Cell("nan", 0, <<>>),
                          Cell("num", 9, <<>>), Cell("num", 9, <<>>), Cell("num", 9, <<>>))>>
            \o data]

\* glob('raw/*.xlsx'): one spreadsheet alone, or before or after a headed
\* one of another case.  The spreadsheets are those of up to MaxSheetRows
\* data rows and one of two districts with a village each.
Workbooks ==
    LET village == SheetRow(Cell("nan", 0, <<>>), Cell("str", 0, <<"a">>),
                            Cell("num", 4, <<>>), Cell("num", 3, <<>>),
                            Cell("num", 1, <<>>), Cell("num", 7, <<>>))
        district(name) == SheetRow(Cell("str", 0, name), Cell("nan", 0, <<>>),
                                   Cell("nan", 0, <<>>), Cell("nan", 0, <<>>),
                                   Cell("nan", 0, <<>>), Cell("nan", 0, <<>>))
        sheets == {Sheet(<<"A">>, titles, headed, data) :
                      titles \in {0, 3, HeaderSearchRows}, headed \in BOOLEAN,
                      data \in SeqsUpTo(DataRows, MaxSheetRows)}
                  \cup {Sheet(<<"A">>, 3, TRUE,
                              <<district(<<"y", "Q">>), village,
                                district(<<"w", "Q", " ">>), village>>)}
        other == Sheet(<<"B">>, 3, TRUE,
                       <<SheetRow(Cell("nan", 0, <<>>), Cell("str", 0, <<"b">>),
                                  Cell("num", 5, <<>>), Cell("num", 2, <<>>),
                                  Cell("num", 1, <<>>), Cell("num", 7, <<>>))>>)
    IN  {<<s>> : s \in sheets} \cup {<<s, other>> : s \in sheets}
        \cup {<<other, s>> : s \in sheets}

\* lines 180-186 of main: the extraction loop.  extract_excel_data is called
\* outside any try, so its IndexError ends main at that file.
RunExtract ==
    /\ extract_status = "none"
    /\ extracted' = [i \in 1..Len(xlsx_files) |-> extract_excel_data(xlsx_files[i])]
    /\ LET raising == {i \in 1..Len(xlsx_files) : extracted'[i].raises}
           reached == IF raising = {} THEN Len(xlsx_files)
                      ELSE (CHOOSE i \in raising : \A j \in raising : i <= j) - 1
       IN  /\ extract_status' = IF raising = {} THEN "done" ELSE "IndexError"
           /\ extracted_data' = Join(<<>>, [i \in 1..reached |-> extracted'[i].results])
    /\ UNCHANGED <<mainVars, resolveVars, combineVars, analyzeVars, normalizeVars, registryVars,
                   xlsx_files>>

\* Runs of the extraction loop over one or two spreadsheets.
InitExtract ==
    /\ xlsx_files \in Workbooks
    /\ ExtractIdle
    /\ NoAnalyzeInput
    /\ NoNormalizeInput
    /\ NoRegistryInput
    /\ NoMainInput
    /\ NoResolveInput
    /\ NoCombineInput

NextExtract == RunExtract

SpecExtract == InitExtract /\ [][NextExtract]_vars

-----------------------------------------------------------------------------
(***************************************************************************)
(* normalize_district_name applied to a name and again to its result, as   *)
(* a caller that normalizes an already normalized name does.               *)
(***************************************************************************)
MaxNameLen == 4
MaxPasses == 2

\* Names: every short text over the characters the replacements inspect,
\* and every run of three pieces that are or resemble the replaced words.
DistrictNames ==
    SeqsUpTo({"T", "t", "b", "z", "d", "n", "S", "X"}, MaxNameLen)
    \cup {p \o q \o r :
            p, q, r \in {<<>>, <<"T">>, <<"T", "b", "S">>, <<"T", "z", "S">>,
                         <<"T", "d", "X">>, <<"T", "n", "S">>, <<"t", "b", "S">>,
                         <<"a", "Q">>}}

\* One more call of normalize_district_name, on the last result.
NormalizePass ==
    /\ Len(norm_output) < MaxPasses
    /\ norm_output' = Append(norm_output,
                             normalize_district_name(IF norm_output = <<>> THEN norm_input
                                                     ELSE norm_output[Len(norm_output)]))
    /\ UNCHANGED <<mainVars, resolveVars, combineVars, analyzeVars, extractVars,
                   registryVars, norm_input>>

InitNormalize ==
    /\ norm_input \in DistrictNames
    /\ norm_output = <<>>
    /\ NoRegistryInput
    /\ NoAnalyzeInput
    /\ NoExtractInput
    /\ NoMainInput
    /\ NoResolveInput
    /\ NoCombineInput

NextNormalize == NormalizePass

SpecNormalize == InitNormalize /\ [][NextNormalize]_vars

-----------------------------------------------------------------------------
(***************************************************************************)
(* load_villcode_mapping over registries that differ in their features.    *)
(***************************************************************************)
MaxFeatures == 2

\* Features of a registry file: counties and towns with and without the
\* traditional tai, villages with and without a name, two codes.
BasecodeFeatures ==
    {Feature(county, town, village, code) :
        county \in {TaibeiTrad, <<"t", "b", "S">>, Xinbei},
        town \in {Daan, <<"T", "a", "Q">>},
        village \in {VillV, None},
        code \in {CodeDaanV, CorrectionCode}}

\* One call of load_villcode_mapping().
LoadRegistry ==
    /\ ~registry_loaded
    /\ registry_loaded' = TRUE
    /\ registry_map' = load_villcode_mapping(basecode_features)
    /\ UNCHANGED <<mainVars, resolveVars, combineVars, analyzeVars, extractVars,
                   normalizeVars, basecode_features>>

InitRegistry ==
    /\ basecode_features \in SeqsUpTo(BasecodeFeatures, MaxFeatures)
    /\ registry_loaded = FALSE
    /\ registry_map = EmptyDict
    /\ NoAnalyzeInput
    /\ NoExtractInput
    /\ NoNormalizeInput
    /\ NoMainInput
    /\ NoResolveInput
    /\ NoCombineInput

NextRegistry == LoadRegistry

SpecRegistry == InitRegistry /\ [][NextRegistry]_vars

-----------------------------------------------------------------------------
(***************************************************************************)
(* Properties of extract_and_merge.main.                                   *)
(***************************************************************************)
SixFields == {"agree_votes", "disagree_votes", "valid_votes", "invalid_votes",
              "total_voters", "eligible_voters"}

\* The sum of one field over a list of records.
RECURSIVE Total(_, _)
Total(records, field) ==
    IF records = <<>> THEN 0
    ELSE records[1][field] + Total(Tail(records), field)

\* The records of group g as the spreadsheets hold them.
RawRecords(g) ==
    [j \in 1..Len(cunli_merged[g].idx) |-> raw[cunli_merged[g].idx[j]]]

\* The document of group g resolved to code.  (main dumps one document per
\* group, in the order of the groups.)
ResolvedTo(g, code) ==
    /\ written[g].info # <<>>
    /\ ~written[g].info[1].VILLCODE.isList
    /\ written[g].info[1].VILLCODE.codes[1] = code

\* C1: in every per-village document main writes, each of the six numeric
\* entries of sum_fields equals the sum of that field over the document's own
\* records (for the corrected village: after the exchange, which is applied
\* to the totals and to the records alike).
C1_SumFieldsAreSums ==
    \A d \in 1..Len(written) : \A f \in SixFields :
        written[d].sum_fields[f] = Total(written[d].records, f)

\* A document of the corrected village with two stations and unequal totals.
C1_Witness ==
    \E d \in 1..Len(written) :
        /\ ResolvedTo(d, CorrectionCode)
        /\ Len(written[d].records) >= 2
        /\ written[d].sum_fields.agree_votes # written[d].sum_fields.disagree_votes

\* C2: within one run, for the village with key Yonghe_Guangfu resolved to
\* 65000040036, every output reports agree_votes and disagree_votes exchanged
\* relative to the extracted input: the document's sum_fields, each of its
\* records, and the cunli_summary entry of 65000040036.
C2_ExchangedInEveryOutput ==
    ran =>
    \A g \in 1..Len(cunli_merged) :
        (cunli_merged[g].key = CorrectionKey /\ ResolvedTo(g, CorrectionCode)) =>
            /\ written[g].sum_fields.agree_votes = Total(RawRecords(g), "disagree_votes")
            /\ written[g].sum_fields.disagree_votes = Total(RawRecords(g), "agree_votes")
            /\ \A j \in 1..Len(written[g].records) :
                  /\ written[g].records[j].agree_votes = RawRecords(g)[j].disagree_votes
                  /\ written[g].records[j].disagree_votes = RawRecords(g)[j].agree_votes
            /\ CorrectionCode \in DOMAIN cunli_summary
            /\ cunli_summary[CorrectionCode].sum_fields.agree_votes
                  = Total(RawRecords(g), "disagree_votes")
            /\ cunli_summary[CorrectionCode].sum_fields.disagree_votes
                  = Total(RawRecords(g), "agree_votes")

\* The sum_fields main writes: of the documents and of cunli_summary.
RateWithin(sum_fields, lo, hi) ==
    /\ sum_fields.average_turnout_rate >= lo
    /\ sum_fields.average_turnout_rate <= hi

\* C7 as stated: average_turnout_rate is 0.0 when the summed eligible_voters
\* is 0, and within [0, 100] whenever it is greater than 0.
C7_RateWithinBounds ==
    /\ \A d \in 1..Len(written) :
          IF written[d].sum_fields.eligible_voters = 0
          THEN written[d].sum_fields.average_turnout_rate = 0
          ELSE RateWithin(written[d].sum_fields, 0, 10000)
    /\ \A c \in DOMAIN cunli_summary :
          IF cunli_summary[c].sum_fields.eligible_voters = 0
          THEN cunli_summary[c].sum_fields.average_turnout_rate = 0
          ELSE RateWithin(cunli_summary[c].sum_fields, 0, 10000)

\* What main guarantees of one sum_fields: 0.0 without eligible voters,
\* within [0, 100] when no more voted than were eligible, and at least 100
\* when more did.
RateAsComputed(sum_fields) ==
    /\ sum_fields.eligible_voters = 0 => sum_fields.average_turnout_rate = 0
    /\ (sum_fields.eligible_voters > 0
            /\ sum_fields.total_voters <= sum_fields.eligible_voters)
          => RateWithin(sum_fields, 0, 10000)
    /\ (sum_fields.eligible_voters > 0
            /\ sum_fields.total_voters > sum_fields.eligible_voters)
          => sum_fields.average_turnout_rate >= 10000

\* C7, amended: average_turnout_rate is 0.0 when the summed eligible_voters
\* is 0; when it is greater than 0 the rate lies in [0, 100] provided the
\* summed total_voters does not exceed it, and is 100 or more otherwise.
C7_RateWithinBoundsWhenConsistent ==
    /\ \A d \in 1..Len(written) : RateAsComputed(written[d].sum_fields)
    /\ \A c \in DOMAIN cunli_summary : RateAsComputed(cunli_summary[c].sum_fields)

\* A village where fewer voted than were eligible, summarised too.
C7_Witness ==
    \E d \in 1..Len(written) :
        /\ written[d].sum_fields.eligible_voters > 0
        /\ written[d].sum_fields.total_voters < written[d].sum_fields.eligible_voters
        /\ written[d].sum_fields.average_turnout_rate > 0
        /\ ResolvedTo(d, CorrectionCode)
        /\ CorrectionCode \in DOMAIN cunli_summary

\* The override of group g, when the run loaded one for its key.
HasOverride(g) == cunli_merged[g].key \in DOMAIN manual_villcode_map
Override(g) == manual_villcode_map[cunli_merged[g].key].VILLCODE

\* The registry holds a code for the village of group g under the county of
\* its first record's label.
RegistryResolves(g) ==
    LET county == extract_county_from_recall_case(RawRecords(g)[1].recall_case)
    IN  /\ Truthy(county)
        /\ (normalize_district_name(county) \o <<"_">> \o cunli_merged[g].key)
              \in DOMAIN RegistryMap

\* C3: whenever a filled manual override exists for a village key, the
\* village's resolved code is the override's code (its first element when the
\* override is a list), whether or not the registry holds a key for the
\* village and whether or not the label yields a county; and the file loop,
\* the cunli_summary loop and the recall_cases loop make the same choice.
C3_ManualOverrideWins ==
    ran =>
    \A g \in 1..Len(cunli_merged) :
        HasOverride(g) =>
            /\ written[g].info # <<>>
            /\ written[g].info[1].VILLCODE = Override(g)
            /\ written[g].filename = Override(g).codes[1]
            /\ Override(g).codes[1] \in DOMAIN cunli_summary
            /\ \A c \in DOMAIN cunli_summary :
                  cunli_summary[c].cunli = cunli_merged[g].key
                      => c = Override(g).codes[1]
            /\ \A j \in 1..Len(RawRecords(g)) :
                  \A c \in Range(Override(g).codes) :
                      c \in case_details[RawRecords(g)[j].recall_case].village_codes

\* An override that is a list of codes, for a village the registry resolves.
C3_Witness ==
    /\ ran
    /\ \E g \in 1..Len(cunli_merged) :
          /\ HasOverride(g)
          /\ Override(g).isList
          /\ RegistryResolves(g)

\* C4: the manual-override file is preserved across runs: an entry an operator
\* has filled for a village of the inputs is still in
\* missing_villcode_mapping.json after every later step (a run of main over
\* the same inputs, or the operator filling another entry).
C4_FilledEntriesPersist ==
    [][\A i \in 1..Len(mapping_file.entries) :
          (/\ CodeFilled(mapping_file.entries[i].villcode)
           /\ \E r \in 1..Len(raw) :
                 /\ Truthy(raw[r].district) /\ Truthy(raw[r].village)
                 /\ raw[r].district \o <<"_">> \o raw[r].village
                       = mapping_file.entries[i].cunli_key) =>
              \E j \in 1..Len(mapping_file'.entries) :
                  mapping_file'.entries[j] = mapping_file.entries[i]]_vars

\* C5: every village for which neither a manual override nor the registry
\* lookup yields a code is recorded in missing_villcode with its key, is
\* assigned no code, and has its document written under the raw village key.
C5_UnresolvedAreRecorded ==
    ran =>
    \A g \in 1..Len(cunli_merged) :
        (~HasOverride(g) /\ ~RegistryResolves(g)) =>
            /\ \E m \in 1..Len(missing_villcode) :
                  missing_villcode[m].cunli_key = cunli_merged[g].key
            /\ written[g].info = <<>>
            /\ written[g].filename = cunli_merged[g].key

\* Record i of the input has a district and a village.
Located(i) == Truthy(raw[i].district) /\ Truthy(raw[i].village)
\* The places <<g, j>> of cunli_merged that hold record i.
PlacesOf(i) ==
    {p \in (1..Len(cunli_merged)) \X (1..Len(raw)) :
        /\ p[2] <= Len(cunli_merged[p[1]].idx)
        /\ cunli_merged[p[1]].idx[p[2]] = i}
SameGroup(i, k) == \E p \in PlacesOf(i), q \in PlacesOf(k) : p[1] = q[1]
GroupsPartition ==
    /\ \A i \in 1..Len(raw) :
          Cardinality(PlacesOf(i)) = (IF Located(i) THEN 1 ELSE 0)
    /\ \A g \in 1..Len(cunli_merged) :
          /\ cunli_merged[g].idx # <<>>
          /\ \A j \in 1..(Len(cunli_merged[g].idx) - 1) :
                cunli_merged[g].idx[j] < cunli_merged[g].idx[j + 1]

\* C8: merge_by_cunli partitions the records that have a district
\* and a village; two records are in the same group if and only if their
\* district strings are equal and their village strings are equal; records
\* inside a group keep their input order; the others are in no group.
C8_GroupedByDistrictAndVillage ==
    ran =>
        /\ GroupsPartition
        /\ \A i, k \in {x \in 1..Len(raw) : Located(x)} :
              SameGroup(i, k) <=> (/\ raw[i].district = raw[k].district
                                   /\ raw[i].village = raw[k].village)

\* Two records of different districts put in one group.
C8_Witness ==
    /\ ran
    /\ \E i, k \in 1..Len(raw) :
          /\ Located(i) /\ Located(k)
          /\ SameGroup(i, k)
          /\ raw[i].district # raw[k].district

-----------------------------------------------------------------------------
(***************************************************************************)
(* Properties of the resolution scripts.                                   *)
(***************************************************************************)
\* File f keeps key k with its value over the step.
KeepsKey(f, k) ==
    /\ k \in DOMAIN cunli_files'[f].fields
    /\ cunli_files'[f].fields[k] = cunli_files[f].fields[k]

\* C6: update_cunli_files, of match_villcode_improved and of
\* add_villcode, leaves unchanged the value of every key already present on a
\* village record.
C6_EveryExistingKeySurvives ==
    [][/\ Len(cunli_files') = Len(cunli_files)
       /\ \A f \in 1..Len(cunli_files) :
             \A k \in DOMAIN cunli_files[f].fields : KeepsKey(f, k)]_vars

(***************************************************************************)
(* Properties of combine_data.                                             *)
(***************************************************************************)
ResultName(r) ==
    combined_results[r].COUNTYNAME \o combined_results[r].TOWNNAME
        \o combined_results[r].VILLNAME
ResultDoc(r) == load_cunli_data(cunli_docs)[ResultName(r)]

\* C9: combine_data emits exactly one JoinedResult for each village present
\* in both the aggregated recall data and the election results, and none for
\* an election entry without an aggregated village or for an aggregated
\* village without an election entry.
C9_InnerJoin ==
    combined =>
        /\ \A key \in DOMAIN load_cunli_data(cunli_docs) :
              (\E e \in 1..Len(election_data) : election_data[e].name = key) =>
                  Cardinality({r \in 1..Len(combined_results) : ResultName(r) = key}) = 1
        /\ \A r \in 1..Len(combined_results) :
              /\ ResultName(r) \in DOMAIN load_cunli_data(cunli_docs)
              /\ \E e \in 1..Len(election_data) : election_data[e].name = ResultName(r)

\* The village of result r is of Taibei and its records carry several cases.
TaibeiSeveralCases(r) ==
    /\ combined_results[r].COUNTYNAME = TaibeiTrad
    /\ Cardinality({ResultDoc(r).records[i].recall_case :
                       i \in 1..Len(ResultDoc(r).records)}) > 1

\* The records of result r's village whose label names Taibei zone k.
NamingZone(r, k) ==
    LET records == ResultDoc(r).records
        idx == SelectIdx(Len(records),
                   {i \in 1..Len(records) :
                       Contains(records[i].recall_case,
                                <<"T", "b", "S", "#", DigitChar(k), "e", "j", "Q">>)})
    IN  [j \in 1..Len(idx) |-> records[idx[j]]]

ZoneOf(r, k) ==
    combined_results[r].election_zone = <<"T", "b", "S", "#", "0", DigitChar(k), "e", "Q">>

\* The recall totals of result r are the sums over records.
TotalsAre(r, records) ==
    /\ combined_results[r].recall_agree_votes = Total(records, "agree_votes")
    /\ combined_results[r].recall_disagree_votes = Total(records, "disagree_votes")
    /\ combined_results[r].recall_valid_votes = Total(records, "valid_votes")
    /\ combined_results[r].recall_invalid_votes = Total(records, "invalid_votes")
    /\ combined_results[r].recall_eligible_voters = Total(records, "eligible_voters")

XinzhuSeveralCases(r) ==
    /\ combined_results[r].COUNTYNAME = Xinzhu
    /\ Cardinality({ResultDoc(r).records[i].recall_case :
                       i \in 1..Len(ResultDoc(r).records)}) > 1

\* The records of result r's village whose label holds the legislator's case
\* name, in their order.
NamingLegislator(r) ==
    LET records == ResultDoc(r).records
        idx == SelectIdx(Len(records),
                   {i \in 1..Len(records) :
                       Contains(records[i].recall_case, <<"R">>)})
    IN  [j \in 1..Len(idx) |-> records[idx[j]]]

SeveralCases(r) ==
    Cardinality({ResultDoc(r).records[i].recall_case :
                    i \in 1..Len(ResultDoc(r).records)}) > 1

\* The records of result r's village that belong to its first record's case.
OfFirstCase(r) ==
    LET records == ResultDoc(r).records
        idx == SelectIdx(Len(records),
                   {i \in 1..Len(records) :
                       records[i].recall_case = records[1].recall_case})
    IN  [j \in 1..Len(idx) |-> records[idx[j]]]

\* The recall totals of result r are those of its village's sum_fields.
TotalsAreSumFields(r) ==
    /\ combined_results[r].recall_agree_votes = ResultDoc(r).sum_fields.agree_votes
    /\ combined_results[r].recall_disagree_votes = ResultDoc(r).sum_fields.disagree_votes
    /\ combined_results[r].recall_valid_votes = ResultDoc(r).sum_fields.valid_votes
    /\ combined_results[r].recall_invalid_votes = ResultDoc(r).sum_fields.invalid_votes
    /\ combined_results[r].recall_eligible_voters = ResultDoc(r).sum_fields.eligible_voters

\* C12: when a village's records carry more than one case and no
\* rule selects any record, the result's recall_case and its recall totals
\* are those of the first case only.
C12_FallbackIsFirstCase ==
    combined =>
    \A r \in 1..Len(combined_results) :
        (SeveralCases(r) /\ matching_log[r] = <<>>) =>
            /\ combined_results[r].recall_case = ResultDoc(r).records[1].recall_case
            /\ TotalsAre(r, OfFirstCase(r))

\* A village with two cases asked for a zone none of its records names.
C12_Witness ==
    /\ combined
    /\ \E r \in 1..Len(combined_results) :
          /\ SeveralCases(r)
          /\ matching_log[r] = <<>>
          /\ Len(OfFirstCase(r)) < Len(ResultDoc(r).records)

\* C13: when disambiguation selects a non-empty subset of a village's
\* records, each reported recall total (agree, disagree, valid, invalid,
\* eligible) is the sum of that field over the selected records only and
\* recall_case is the label of the first selected record; when the village
\* has a single recall case the reported totals are its sum_fields.
C13_TotalsOfSelectedRecords ==
    combined =>
    \A r \in 1..Len(combined_results) :
        /\ matching_log[r] # <<>> =>
              /\ TotalsAre(r, matching_log[r])
              /\ combined_results[r].recall_case = matching_log[r][1].recall_case
              /\ \A j \in 1..Len(matching_log[r]) :
                    matching_log[r][j] \in Range(ResultDoc(r).records)
        /\ ~SeveralCases(r) =>
              /\ matching_log[r] = <<>>
              /\ TotalsAreSumFields(r)
              /\ combined_results[r].recall_case = ResultDoc(r).records[1].recall_case

\* One result from a selected proper subset with totals of its own, and one
\* for a village with a single case.
C13_Witness ==
    /\ combined
    /\ \E r \in 1..Len(combined_results) :
          /\ matching_log[r] # <<>>
          /\ Len(matching_log[r]) < Len(ResultDoc(r).records)
          /\ combined_results[r].recall_agree_votes
                # ResultDoc(r).sum_fields.agree_votes
    /\ \E r \in 1..Len(combined_results) : ~SeveralCases(r)

\* The candidates of result r, in input order, and the greatest vote count.
CandidatesOf(r) == combined_results[r].candidates
MostVotes(r) ==
    CHOOSE v \in {CandidatesOf(r)[i].votes : i \in 1..Len(CandidatesOf(r))} :
        \A i \in 1..Len(CandidatesOf(r)) : CandidatesOf(r)[i].votes <= v
\* The first candidate of result r with the greatest vote count.
FirstWithMost(r) ==
    CandidatesOf(r)[CHOOSE i \in 1..Len(CandidatesOf(r)) :
                       /\ CandidatesOf(r)[i].votes = MostVotes(r)
                       /\ \A k \in 1..(i - 1) : CandidatesOf(r)[k].votes < MostVotes(r)]
WinnerIs(r, candidate) ==
    /\ combined_results[r].winner_name = candidate.name
    /\ combined_results[r].winner_party = candidate.party
    /\ combined_results[r].winner_votes = candidate.votes

\* C14 as stated: for every matched entry the reported winner is the
\* candidate with the greatest vote count, the first of them in input order
\* when several share it; winner_votes, winner_name and winner_party are
\* that candidate's.
C14_WinnerHasMostVotes ==
    combined =>
    \A r \in 1..Len(combined_results) : WinnerIs(r, FirstWithMost(r))

\* C14, amended: this holds when some candidate of the entry has at least one
\* vote; when none has, no candidate is reported: winner_name and
\* winner_party are empty and winner_votes is 0.
C14_WinnerHasMostVotesIfAny ==
    combined =>
    \A r \in 1..Len(combined_results) :
        IF MostVotes(r) > 0
        THEN WinnerIs(r, FirstWithMost(r))
        ELSE /\ combined_results[r].winner_name = ""
             /\ combined_results[r].winner_party = ""
             /\ combined_results[r].winner_votes = 0

\* A winner that is neither the first nor the last candidate, tied with the
\* last.
C14_Witness ==
    /\ combined
    /\ \E r \in 1..Len(combined_results) :
          /\ Len(CandidatesOf(r)) = 3
          /\ CandidatesOf(r)[2].votes = CandidatesOf(r)[3].votes
          /\ combined_results[r].winner_name = CandidatesOf(r)[2].name

\* The name holds no county suffix (xian, shi), or what follows the county
\* holds no district suffix (qu, zhen, xiang).
Unparseable(name) ==
    \/ ~Contains(name, <<"X">>) /\ ~Contains(name, <<"S">>)
    \/ /\ SplitCounty(name).ok
       /\ \A c \in {"Q", "Z", "G"} : ~Contains(SplitCounty(name).remaining, <<c>>)

\* election_data without its unparseable entries.
ParseableEntries ==
    LET idx == SelectIdx(Len(election_data),
                   {e \in 1..Len(election_data) :
                       ~Unparseable(election_data[e].name)})
    IN  [j \in 1..Len(idx) |-> election_data[idx[j]]]

\* C15: an election entry whose name holds no county suffix, or whose
\* remainder after the county holds no district suffix, is skipped: the run
\* completes, no result is produced for it, and the results are those the
\* other entries produce without it.
C15_UnparseableEntriesSkipped ==
    combined =>
        /\ \A e \in 1..Len(election_data) :
              Unparseable(election_data[e].name) =>
                  \A r \in 1..Len(combined_results) :
                      ResultName(r) # election_data[e].name
        /\ combined_results
              = combine_data(load_cunli_data(cunli_docs), ParseableEntries).combined_results

\* An entry without a district suffix, whose village has a document, ahead
\* of an entry that produces a result.
C15_Witness ==
    /\ combined
    /\ Len(election_data) = 2
    /\ election_data[1].name = Zhanghua \o ZhanghuaCity \o VillY
    /\ Len(combined_results) = 1

(***************************************************************************)
(* Properties of analyze_vote_gaps.                                        *)
(***************************************************************************)
\* The rows analyze_vote_gaps built and the rows it wrote.
GapRowsBuilt ==
    Range(kmt_results) \cup Range(non_kmt_results)
        \cup Range(kmt_csv) \cup Range(non_kmt_csv)

\* C16: for every row whose winner_party is the party tested the gap is
\* winner_votes minus recall_disagree_votes and compared_with is
\* 'recall_disagree_votes'; for every other row the gap is winner_votes
\* minus recall_agree_votes and compared_with is 'recall_agree_votes'.
C16_GapByWinnerParty ==
    /\ Len(kmt_results) + Len(non_kmt_results)
          = (IF analyzed = "none" THEN 0 ELSE Len(csv_rows))
    /\ \A row \in GapRowsBuilt :
          IF row.winner_party = "KMT"
          THEN /\ row.gap = row.winner_votes - row.recall_disagree_votes
               /\ row.compared_with = "recall_disagree_votes"
          ELSE /\ row.gap = row.winner_votes - row.recall_agree_votes
               /\ row.compared_with = "recall_agree_votes"

\* Both exports written, with a row of the tested party whose gap is not
\* what the other comparison gives.
C16_Witness ==
    /\ analyzed = "done"
    /\ \E row \in Range(kmt_csv) :
          row.gap # row.winner_votes - row.recall_agree_votes
    /\ \E row \in Range(non_kmt_csv) : row.winner_party = ""

\* How many times x occurs in the sequence xs.
Occurrences(xs, x) == Cardinality({i \in 1..Len(xs) : xs[i] = x})

Descending(export) ==
    \A i \in 1..(Len(export) - 1) : export[i].gap >= export[i + 1].gap

\* C17: after a run over any combined input, every input row is in exactly
\* one of the two exports (the tested party's export if and only if its
\* winner_party is that party), and each export is ordered by gap,
\* descending; also when one of the two classes has no rows.
C17_SplitInTwoSortedExports ==
    analyzed # "none" =>
        /\ analyzed = "done"
        /\ \A i \in 1..Len(csv_rows) :
              LET row == GapRow(csv_rows[i])
              IN  /\ Occurrences(kmt_csv, row) + Occurrences(non_kmt_csv, row)
                        = Occurrences(csv_rows, csv_rows[i])
                  /\ Occurrences(kmt_csv, row) > 0 <=> csv_rows[i].winner_party = "KMT"
        /\ Len(kmt_csv) + Len(non_kmt_csv) = Len(csv_rows)
        /\ Descending(kmt_csv)
        /\ Descending(non_kmt_csv)

\* A run over rows of one class only: it ended in KeyError, nothing written.
C17_Witness ==
    /\ analyzed = "KeyError"
    /\ Len(csv_rows) >= 2
    /\ kmt_results = <<>>
    /\ kmt_csv = <<>> /\ non_kmt_csv = <<>>

-----------------------------------------------------------------------------
(***************************************************************************)
(* Properties of extract_excel_data and of the extraction loop of main.    *)
(***************************************************************************)
\* The first cell of some row of the spreadsheet is the header text.
HasHeaderRow(file) ==
    \E i \in 1..Len(file.df) : file.df[i].c0 = Cell("str", 0, <<"H">>)

\* The extraction loop ran to its end and all_data holds what every file gave.
ExtractionContinued ==
    /\ extract_status = "done"
    /\ extracted_data = Join(<<>>, [i \in 1..Len(extracted) |-> extracted[i].results])

\* C18: for every spreadsheet without a row whose first cell is the header
\* text, whatever its number of rows, extract_excel_data warns and returns an
\* empty list without raising, and main continues with the remaining files.
C18_HeaderlessSheetGivesNothing ==
    extract_status # "none" =>
        \A i \in 1..Len(xlsx_files) :
            ~HasHeaderRow(xlsx_files[i]) =>
                /\ ~extracted[i].raises
                /\ extracted[i].warned
                /\ extracted[i].results = <<>>
                /\ ExtractionContinued

\* A headerless spreadsheet shorter than the header search, before a
\* spreadsheet that has records: the search ran off its end.
C18_Witness ==
    /\ extract_status = "IndexError"
    /\ Len(xlsx_files) = 2
    /\ ~HasHeaderRow(xlsx_files[1])
    /\ Len(xlsx_files[1].df) < HeaderSearchRows
    /\ extracted[1].raises
    /\ extracted[2].results # <<>>
    /\ extracted_data = <<>>

\* A cell that holds a whole number: empty (read as 0), a number, or text
\* that is digits between blanks.
WholeNumber(cell) ==
    \/ cell.kind \in {"nan", "num"}
    \/ /\ cell.kind = "str"
       /\ \E i \in 1..Len(cell.s) : IsDigit(cell.s[i])
       /\ \A i \in 1..Len(cell.s) : IsDigit(cell.s[i]) \/ cell.s[i] = " "
       /\ \A i, j \in 1..Len(cell.s) :
              (IsDigit(cell.s[i]) /\ IsDigit(cell.s[j])) =>
                  \A k \in i..j : IsDigit(cell.s[k])

\* A village data row: second and third cell filled.
VillageRow(row) == row.c1.kind # "nan" /\ row.c2.kind # "nan"

\* A village data row none of whose numeric fields is malformed.
WellFormedVillageRow(row) ==
    /\ VillageRow(row)
    /\ \A k \in 1..Len(row.counts) : WholeNumber(row.counts[k])
    /\ \/ WholeNumber(row.rate)
       \/ /\ row.rate.kind = "str"
          /\ WholeNumber(Cell("str", 0, SelectSeq(row.rate.s, LAMBDA c : c # "%")))

\* The pandas index of the header row, when the search finds it.
HeaderFoundAt(file, h) ==
    /\ h < HeaderSearchRows
    /\ h < Len(file.df)
    /\ file.df[h + 1].c0 = Cell("str", 0, <<"H">>)
    /\ \A i \in 0..(h - 1) : file.df[i + 1].c0 # Cell("str", 0, <<"H">>)

\* The rows after the header offset that satisfy a condition.
RowsFrom(file, h, Cond(_)) ==
    {i \in (h + HeaderOffset + 1)..Len(file.df) : Cond(file.df[i])}

\* C19: in a spreadsheet whose header is found, no row raises, a village
\* data row with a malformed numeric field gives no record, and the number
\* of records is the number of well-formed village data rows after the
\* header offset.
C19_MalformedRowsSkipped ==
    extract_status # "none" =>
        \A i \in 1..Len(xlsx_files) : \A h \in 0..(HeaderSearchRows - 1) :
            HeaderFoundAt(xlsx_files[i], h) =>
                /\ ~extracted[i].raises
                /\ Len(extracted[i].results)
                     = Cardinality(RowsFrom(xlsx_files[i], h, WellFormedVillageRow))

\* A spreadsheet with a malformed village row and a well-formed one after
\* the header offset gave one record.
C19_Witness ==
    /\ extract_status = "done"
    /\ \E h \in 0..(HeaderSearchRows - 1) :
          /\ HeaderFoundAt(xlsx_files[1], h)
          /\ RowsFrom(xlsx_files[1], h, LAMBDA r : VillageRow(r) /\ ~WellFormedVillageRow(r)) # {}
          /\ RowsFrom(xlsx_files[1], h, WellFormedVillageRow) # {}
    /\ Len(extracted[1].results) = 1

-----------------------------------------------------------------------------
(***************************************************************************)
(* Properties of normalize_district_name.                                  *)
(***************************************************************************)
\* C20: normalize_district_name is idempotent: applied to its own result it
\* returns that result.
C20_NormalizeIdempotent ==
    Len(norm_output) >= 2 => norm_output[2] = norm_output[1]

\* A name with two words to replace was normalized twice, and the first
\* call changed it.
C20_Witness ==
    /\ Len(norm_output) >= 2
    /\ norm_output[1] # norm_input
    /\ \E i, j \in 1..Len(norm_input) :
          /\ i + 3 <= j
          /\ norm_input[i] = "T" /\ norm_output[1][i] = "t"
          /\ norm_input[j] = "T" /\ norm_output[1][j] = "t"

\* The four names normalize_district_name replaces.
TraditionalNames ==
    {<<"T", "b", "S">>, <<"T", "z", "S">>, <<"T", "d", "X">>, <<"T", "n", "S">>}

\* One of the four names stands in s from position i on.
NameAt(s, i) ==
    /\ i + 2 <= Len(s)
    /\ SubSeq(s, i, i + 2) \in TraditionalNames

\* C21 as stated: one of the four names is mapped to its simplified form, and
\* every input that is not exactly one of the four names is returned unchanged.
C21_WholeTokenReplacement ==
    Len(norm_output) >= 1 =>
        IF norm_input \in TraditionalNames
        THEN norm_output[1] = <<"t">> \o Tail(norm_input)
        ELSE norm_output[1] = norm_input

\* C21 as the code has it: the first character of every occurrence of one of
\* the four names in the input is replaced, wherever the occurrence stands,
\* and nothing else changes; an input without occurrence is returned
\* unchanged.
C21_EveryOccurrenceReplaced ==
    Len(norm_output) >= 1 =>
        /\ Len(norm_output[1]) = Len(norm_input)
        /\ \A i \in 1..Len(norm_input) :
              norm_output[1][i] = IF NameAt(norm_input, i) THEN "t" ELSE norm_input[i]

\* A longer name that holds one of the four names was normalized, and
\* changed.
C21_Witness ==
    /\ Len(norm_output) >= 1
    /\ norm_input \notin TraditionalNames
    /\ \E i \in 1..Len(norm_input) : NameAt(norm_input, i)
    /\ norm_output[1] # norm_input

-----------------------------------------------------------------------------
(***************************************************************************)
(* Properties of load_villcode_mapping.                                    *)
(***************************************************************************)
\* s with every traditional tai written in the simplified form.
Simplified(s) == [i \in 1..Len(s) |-> IF s[i] = "T" THEN "t" ELSE s[i]]

\* The four keys of a feature: the exact one and those with the county, the
\* district or both simplified.
FourKeys(f) ==
    {c \o <<"_">> \o d \o <<"_">> \o f.VILLNAME :
        c \in {f.COUNTYNAME, Simplified(f.COUNTYNAME)},
        d \in {f.TOWNNAME, Simplified(f.TOWNNAME)}}

\* The named features of the registry, by position.
NamedFeatures == {i \in 1..Len(basecode_features) : basecode_features[i].VILLNAME # None}

\* C22 as stated: the code of every feature with a village name is
\* retrievable under its four keys, and features without a village name
\* contribute no key.
C22_CodeUnderAllFourKeys ==
    registry_loaded =>
        /\ \A i \in NamedFeatures : \A k \in FourKeys(basecode_features[i]) :
              /\ k \in DOMAIN registry_map
              /\ registry_map[k].VILLCODE = StrCode(basecode_features[i].VILLCODE)
        /\ DOMAIN registry_map = UNION {FourKeys(basecode_features[i]) : i \in NamedFeatures}

\* C22 as the code has it: every key of a named feature is in the map and
\* holds the code of the last feature of the file that has that key; the
\* keys of the map are the keys of the named features.
C22_LastFeatureUnderEachKey ==
    registry_loaded =>
        /\ \A i \in NamedFeatures : \A k \in FourKeys(basecode_features[i]) :
              /\ k \in DOMAIN registry_map
              /\ (\A j \in NamedFeatures : j > i => k \notin FourKeys(basecode_features[j]))
                    => registry_map[k].VILLCODE = StrCode(basecode_features[i].VILLCODE)
        /\ DOMAIN registry_map = UNION {FourKeys(basecode_features[i]) : i \in NamedFeatures}

\* A registry with a feature whose four keys are distinct, a later feature
\* of another code that has one of them, and a feature without name.
C22_Witness ==
    /\ registry_loaded
    /\ \E i, j \in NamedFeatures :
          /\ i < j
          /\ Cardinality(FourKeys(basecode_features[i])) = 4
          /\ basecode_features[i].VILLCODE # basecode_features[j].VILLCODE
          /\ \E k \in FourKeys(basecode_features[i]) \cap FourKeys(basecode_features[j]) :
                registry_map[k].VILLCODE = StrCode(basecode_features[j].VILLCODE)
          /\ FourKeys(basecode_features[i]) \ FourKeys(basecode_features[j]) # {}

-----------------------------------------------------------------------------
(***************************************************************************)
(* Properties of the village groups of extract_and_merge.main.             *)
(***************************************************************************)
\* The county the case label of record i names.
CountyOf(i) == extract_county_from_recall_case(raw[i].recall_case)

\* C23: every village group holds records of a single county: two records
\* whose case labels name different counties are never in the same group, so
\* the county of the group's first record is the county of each of its
\* records.
C23_OneCountyPerGroup ==
    ran =>
        \A g \in 1..Len(cunli_merged) : \A j \in 1..Len(cunli_merged[g].idx) :
            CountyOf(cunli_merged[g].idx[j]) = CountyOf(cunli_merged[g].idx[1])

\* Two records whose labels name two counties, of one district name and one
\* village name, are in one group.
C23_Witness ==
    /\ ran
    /\ \E g \in 1..Len(cunli_merged) : \E j \in 1..Len(cunli_merged[g].idx) :
          /\ CountyOf(cunli_merged[g].idx[1]) # None
          /\ CountyOf(cunli_merged[g].idx[j]) # None
          /\ CountyOf(cunli_merged[g].idx[j]) # CountyOf(cunli_merged[g].idx[1])
          /\ raw[cunli_merged[g].idx[j]].district = raw[cunli_merged[g].idx[1]].district
          /\ raw[cunli_merged[g].idx[j]].village = raw[cunli_merged[g].idx[1]].village

\* A district row: first cell filled, second cell empty.
DistrictRow(row) == row.c0.kind # "nan" /\ row.c1.kind = "nan"

\* d is the text s without the blanks around it.
TextOf(s, d) ==
    \E a, b \in 0..Len(s) :
        /\ a + b <= Len(s)
        /\ d = SubSeq(s, a + 1, Len(s) - b)
        /\ \A i \in (1..a) \cup ((Len(s) - b + 1)..Len(s)) : s[i] = " "
        /\ d # <<>> => (d[1] # " " /\ d[Len(d)] # " ")

\* The row of the k-th record of a spreadsheet with its header at h: the
\* k-th well-formed village row after the header offset.
RowOfRecord(file, h, k) ==
    CHOOSE r \in RowsFrom(file, h, WellFormedVillageRow) :
        Cardinality({x \in RowsFrom(file, h, WellFormedVillageRow) : x <= r}) = k

\* C24: the district of every extracted record is the text of the most
\* recent district row before its row among the data rows of the same
\* spreadsheet, and None when no district row precedes it, whatever the
\* spreadsheets read before.
C24_DistrictOfLastDistrictRow ==
    extract_status # "none" =>
        \A i \in 1..Len(xlsx_files) : \A h \in 0..(HeaderSearchRows - 1) :
            HeaderFoundAt(xlsx_files[i], h) =>
                /\ Len(extracted[i].results)
                     = Cardinality(RowsFrom(xlsx_files[i], h, WellFormedVillageRow))
                /\ \A k \in 1..Len(extracted[i].results) :
                      LET before == {d \in RowsFrom(xlsx_files[i], h, DistrictRow) :
                                        d < RowOfRecord(xlsx_files[i], h, k)}
                      IN  IF before = {}
                          THEN extracted[i].results[k].district = None
                          ELSE TextOf(xlsx_files[i].df[CHOOSE d \in before :
                                                          \A e \in before : e <= d].c0.s,
                                      extracted[i].results[k].district)

\* The first spreadsheet gave two records under two district rows; the
\* second gave a record that no district row precedes.
C24_Witness ==
    /\ extract_status = "done"
    /\ Len(xlsx_files) = 2
    /\ Len(extracted[1].results) = 2
    /\ extracted[1].results[1].district # None
    /\ extracted[1].results[2].district # None
    /\ extracted[1].results[2].district # extracted[1].results[1].district
    /\ extracted[2].results # <<>>
    /\ extracted[2].results[1].district = None

-----------------------------------------------------------------------------
(***************************************************************************)
(* Properties of the name parsing of combine_data.                         *)
(***************************************************************************)
\* The name parses: a county and, in what remains, a district are found.
Parsed(name) ==
    /\ SplitCounty(name).ok
    /\ SplitTown(SplitCounty(name).remaining).ok

\* county_name + town_name + village_name of a name that parses.
MatchKey(name) ==
    SplitCounty(name).county_name
        \o SplitTown(SplitCounty(name).remaining).town_name
        \o SplitTown(SplitCounty(name).remaining).village_name

\* C25: for every election entry whose name parses, the concatenation of the
\* parsed county, district and village is the name itself, so the entry is
\* looked up under its unmodified name: it has a result exactly when a
\* village document has that name.
C25_MatchKeyIsName ==
    combined =>
        \A e \in 1..Len(election_data) :
            Parsed(election_data[e].name) =>
                /\ MatchKey(election_data[e].name) = election_data[e].name
                /\ (\E r \in 1..Len(combined_results) : ResultName(r) = election_data[e].name)
                      <=> election_data[e].name \in DOMAIN load_cunli_data(cunli_docs)

\* An entry whose village name holds the city and the district character,
\* and an entry that names the county twice, were parsed; the first was
\* found under its name.
C25_Witness ==
    /\ combined
    /\ Len(election_data) = 2
    /\ election_data[1].name = Xinzhu \o Dong \o <<"S", "Q", "u">>
    /\ election_data[2].name = Zhanghua \o Zhanghua \o ZhanghuaCity \o Dong \o VillY
    /\ Parsed(election_data[1].name)
    /\ Parsed(election_data[2].name)
    /\ Len(combined_results) = 1
    /\ ResultName(1) = election_data[1].name
=============================================================================
